---- MODULE Spec2Model ----
(***************************************************************************)
(* A model of the download lifecycle manager (src/src/downloadManager.js), *)
(* of the HTTP handlers that call it (src/src/index.js), of the media URL  *)
(* decryptor (src/src/urlDecryptor.js) and of the performance lookup that  *)
(* uses the decryptor (src/src/smuleClient.js).                            *)
(*                                                                         *)
(* Node.js runs one callback at a time: an async function runs without     *)
(* interruption up to its next await, and its continuation is a later      *)
(* callback.  Every action below is one such uninterrupted run, or one     *)
(* step of the environment (the network, the file system, the timer        *)
(* wheel).                                                                 *)
(***************************************************************************)
EXTENDS Integers, Sequences, FiniteSets, TLC

\* The number of downloadFile calls and of manualCleanup calls of a run.
MaxCalls == 2
MaxManual == 2

Calls == 1..MaxCalls
Manuals == 1..MaxManual
\* uuidv4 values are numbered in the order they are drawn.
Ids == 1..MaxCalls
NoId == 0

VARIABLES
  callPc,        \* downloadFile call -> where it is suspended
  callId,        \* downloadFile call -> its downloadId (NoId before line 55)
  callVideo,     \* downloadFile call -> metadata.videoMediaMp4Url is truthy
  callType,      \* downloadFile call -> the type of the proxy-download request
  nextId,        \* the number of identifiers uuidv4 has returned
  downloadCache, \* the Map of line 16: downloadId -> { filePath, cleanupTimer, metadata }
  timer,         \* the setTimeout handle of each downloadId
  disk,          \* the file of each downloadId in DOWNLOAD_DIR
  unlinkCount,   \* downloadId -> fs.unlink calls made by cleanupDownload
  tcPc,          \* the cleanupDownload started by the timer callback of each downloadId
  tcErr,         \* downloadId -> the fs.unlink of that cleanupDownload rejected
  manPc,         \* manualCleanup call -> where it is suspended
  manId,         \* manualCleanup call -> its argument
  manErr,        \* manualCleanup call -> its fs.unlink rejected
  manRet,        \* manualCleanup call -> its return value
  httpRes,       \* the response of the latest GET /api/download/:id
  candidate,     \* the argument of the latest decryptMediaUrl call
  decrypted,     \* what that call returned or threw
  perf,          \* the getPerformanceFromUrl call in progress
  cipher,        \* a byte sequence and what the cipher of processRecording made of it
  obfuscated,    \* a plaintext URL and its obfuscated form
  extracted,     \* the latest extractPerformanceKey call and its result
  packed,        \* the latest registerCharPool call and its result
  session,       \* the processRecording calls made since the module was loaded
  redirect,      \* the followRedirects call in progress
  rounds,        \* a processRecording call, observed after each round of its loops
  processed      \* the latest processPerformanceData call and its outcome

dmVars == <<callPc, callId, callVideo, callType, nextId, downloadCache, timer, disk,
            unlinkCount, tcPc, tcErr, manPc, manId, manErr, manRet, httpRes>>

urlVars == <<candidate, decrypted>>

fnVars == <<extracted, packed, session, redirect, rounds, processed>>

codecVars == <<cipher, obfuscated, fnVars>>

vars == <<dmVars, urlVars, perf, codecVars>>

-----------------------------------------------------------------------------
(* downloadManager.js: the pure parts *)

\* line 56
Extension(video) == IF video THEN ".mp4" ELSE ".m4a"

\* lines 57-58: the file name is the identifier followed by the extension
FilePath(id, video) == <<id, Extension(video)>>

\* downloadCache.has(downloadId)
CacheHas(id) == id \in DOMAIN downloadCache

\* JavaScript's null
Null == [null |-> TRUE]

\* lines 110-112
GetDownloadInfo(id) == IF CacheHas(id) THEN downloadCache[id] ELSE Null

\* getStats counting the files of the directory instead of the records
GetStats_CountsFiles ==
  [activeDownloads |-> Cardinality({i \in Ids : disk[i] # "absent"}),
   downloads |-> {[id |-> i,
                   fileName |-> downloadCache[i].filePath,
                   metadata |-> downloadCache[i].metadata] : i \in DOMAIN downloadCache}]

\* lines 160-169
GetStats ==
  [activeDownloads |-> Cardinality(DOMAIN downloadCache),
   downloads |-> {[id |-> i,
                   fileName |-> downloadCache[i].filePath,
                   metadata |-> downloadCache[i].metadata] : i \in DOMAIN downloadCache}]

\* lines 75-84: downloadCache.set(downloadId, {...})
CacheSet(id, video) ==
  (id :> [filePath |-> FilePath(id, video),
          cleanupTimer |-> id,
          metadata |-> [title |-> "download", extension |-> Extension(video)]])
  @@ downloadCache

\* downloadCache.clear() in the place of line 139
CacheDelete_All(id) == [i \in {} |-> downloadCache[i]]

\* line 139: downloadCache.delete(downloadId)
CacheDelete(id) == [i \in DOMAIN downloadCache \ {id} |-> downloadCache[i]]

\* downloadFile without lines 70-72: no timer is set
TimerArmed_Never(id) == timer

\* lines 70-72: setTimeout arms the one-shot timer of the identifier
TimerArmed(id) == [timer EXCEPT ![id] = "armed"]

\* cleanupDownload without lines 126-128
TimerCleared_Forgotten(id) == timer

\* lines 126-128: clearTimeout cancels a timer that has not fired, and does
\* nothing to one that has
TimerCleared(id) ==
  IF timer[id] = "armed" THEN [timer EXCEPT ![id] = "cleared"] ELSE timer

-----------------------------------------------------------------------------
(* downloadFile, lines 52-103 *)

\* the types a proxy-download request names
Kinds == {"video", "audio"}

\* the handler passing the URL as videoMediaMp4Url whatever the type
HasVideoUrl_Always(type) == TRUE

\* index.js line 150: metadata.videoMediaMp4Url is the URL (not empty, line
\* 139) for type "video" and null otherwise
HasVideoUrl(type) == type = "video"

\* index.js lines 137-153 and line 53: POST /api/proxy-download builds the
\* metadata and calls downloadFile, which suspends in ensureDownloadDir
DownloadCall(c, type) ==
  /\ callPc[c] = "idle"
  /\ \A b \in Calls : b < c => callPc[b] # "idle"
  /\ callPc' = [callPc EXCEPT ![c] = "mkdir"]
  /\ callType' = [callType EXCEPT ![c] = type]
  /\ callVideo' = [callVideo EXCEPT ![c] = HasVideoUrl(type)]
  /\ UNCHANGED <<callId, nextId, downloadCache, timer, disk, unlinkCount,
                 tcPc, tcErr, manPc, manId, manErr, manRet, httpRes, urlVars, perf, codecVars>>

\* downloadFile with lines 70-72 moved before the request: the timer is armed
\* when the identifier is drawn
DownloadAllocate_ArmsTimer(c) ==
  /\ callPc[c] = "mkdir"
  /\ nextId < MaxCalls
  /\ nextId' = nextId + 1
  /\ callId' = [callId EXCEPT ![c] = nextId + 1]
  /\ callPc' = [callPc EXCEPT ![c] = "fetching"]
  /\ timer' = TimerArmed(nextId + 1)
  /\ UNCHANGED <<callVideo, callType, downloadCache, disk, unlinkCount,
                 tcPc, tcErr, manPc, manId, manErr, manRet, httpRes, urlVars, perf, codecVars>>

\* downloadFile with an identifier that is not fresh: every call gets the
\* first one
DownloadAllocate_Reuses(c) ==
  /\ callPc[c] = "mkdir"
  /\ nextId < MaxCalls
  /\ nextId' = nextId + 1
  /\ callId' = [callId EXCEPT ![c] = 1]
  /\ callPc' = [callPc EXCEPT ![c] = "fetching"]
  /\ UNCHANGED <<callVideo, callType, downloadCache, timer, disk, unlinkCount,
                 tcPc, tcErr, manPc, manId, manErr, manRet, httpRes, urlVars, perf, codecVars>>

\* lines 55-61: mkdir has returned (its error is swallowed, lines 24-26); the
\* identifier is drawn and the request is sent
DownloadAllocate(c) ==
  /\ callPc[c] = "mkdir"
  /\ nextId < MaxCalls
  /\ nextId' = nextId + 1
  /\ callId' = [callId EXCEPT ![c] = nextId + 1]
  /\ callPc' = [callPc EXCEPT ![c] = "fetching"]
  /\ UNCHANGED <<callVideo, callType, downloadCache, timer, disk, unlinkCount,
                 tcPc, tcErr, manPc, manId, manErr, manRet, httpRes, urlVars, perf, codecVars>>

\* downloadFile with lines 70-72 moved before the pipeline: the timer is
\* armed when the response arrives
DownloadResponse_ArmsTimer(c) ==
  /\ callPc[c] = "fetching"
  /\ callPc' = [callPc EXCEPT ![c] = "writing"]
  /\ timer' = TimerArmed(callId[c])
  /\ UNCHANGED <<callId, callVideo, callType, nextId, downloadCache, disk,
                 unlinkCount, tcPc, tcErr, manPc, manId, manErr, manRet, httpRes, urlVars, perf, codecVars>>

\* downloadFile with lines 75-84 moved before the pipeline: the record is
\* stored when the response arrives
DownloadResponse_StoresEarly(c) ==
  /\ callPc[c] = "fetching"
  /\ callPc' = [callPc EXCEPT ![c] = "writing"]
  /\ downloadCache' = CacheSet(callId[c], callVideo[c])
  /\ UNCHANGED <<callId, callVideo, callType, nextId, timer, disk,
                 unlinkCount, tcPc, tcErr, manPc, manId, manErr, manRet, httpRes, urlVars, perf, codecVars>>

\* lines 66-67: the response has arrived; the write stream is created and the
\* call suspends in pipeline
DownloadResponse(c) ==
  /\ callPc[c] = "fetching"
  /\ callPc' = [callPc EXCEPT ![c] = "writing"]
  /\ UNCHANGED <<callId, callVideo, callType, nextId, downloadCache, timer, disk,
                 unlinkCount, tcPc, tcErr, manPc, manId, manErr, manRet, httpRes, urlVars, perf, codecVars>>

\* the write stream opens the file and writes the first bytes
StreamWrite(c) ==
  /\ callPc[c] = "writing"
  /\ disk[callId[c]] = "absent"
  /\ disk' = [disk EXCEPT ![callId[c]] = "partial"]
  /\ UNCHANGED <<callPc, callId, callVideo, callType, nextId, downloadCache, timer,
                 unlinkCount, tcPc, tcErr, manPc, manId, manErr, manRet, httpRes, urlVars, perf, codecVars>>

\* the last byte is written and the stream is closed: pipeline's promise is
\* resolved, its continuation not yet run
StreamFinish(c) ==
  /\ callPc[c] = "writing"
  /\ disk' = [disk EXCEPT ![callId[c]] = "complete"]
  /\ callPc' = [callPc EXCEPT ![c] = "written"]
  /\ UNCHANGED <<callId, callVideo, callType, nextId, downloadCache, timer,
                 unlinkCount, tcPc, tcErr, manPc, manId, manErr, manRet, httpRes, urlVars, perf, codecVars>>

\* lines 69-92: the continuation of pipeline: the timer is armed, the record
\* is stored and the call returns
DownloadComplete(c) ==
  /\ callPc[c] = "written"
  /\ timer' = TimerArmed(callId[c])
  /\ downloadCache' = CacheSet(callId[c], callVideo[c])
  /\ callPc' = [callPc EXCEPT ![c] = "done"]
  /\ UNCHANGED <<callId, callVideo, callType, nextId, disk, unlinkCount, tcPc, tcErr,
                 manPc, manId, manErr, manRet, httpRes, urlVars, perf, codecVars>>

\* lines 93-96: axios.get rejected (no response, a timeout, a status outside
\* 2xx) or pipeline rejected (the source or the write stream failed); the
\* catch block calls fs.unlink and suspends
DownloadCatch(c) ==
  /\ callPc[c] \in {"fetching", "writing"}
  /\ callPc' = [callPc EXCEPT ![c] = "unlinking"]
  /\ UNCHANGED <<callId, callVideo, callType, nextId, downloadCache, timer, disk,
                 unlinkCount, tcPc, tcErr, manPc, manId, manErr, manRet, httpRes, urlVars, perf, codecVars>>

\* the file system runs the unlink of line 96: the file is removed, or the
\* call fails (there is no file, or the file system refuses)
DownloadUnlink(c, ok) ==
  /\ callPc[c] = "unlinking"
  /\ ok => disk[callId[c]] # "absent"
  /\ disk' = IF ok THEN [disk EXCEPT ![callId[c]] = "absent"] ELSE disk
  /\ callPc' = [callPc EXCEPT ![c] = "unlinked"]
  /\ UNCHANGED <<callId, callVideo, callType, nextId, downloadCache, timer,
                 unlinkCount, tcPc, tcErr, manPc, manId, manErr, manRet, httpRes, urlVars, perf, codecVars>>

\* lines 97-101: the unlink error is ignored and "Download failed" is thrown
DownloadThrow(c) ==
  /\ callPc[c] = "unlinked"
  /\ callPc' = [callPc EXCEPT ![c] = "failed"]
  /\ UNCHANGED <<callId, callVideo, callType, nextId, downloadCache, timer, disk,
                 unlinkCount, tcPc, tcErr, manPc, manId, manErr, manRet, httpRes, urlVars, perf, codecVars>>

\* what the call has returned or thrown so far
CallOutcome(c) ==
  CASE callPc[c] = "done" ->
         [tag |-> "return",
          downloadId |-> callId[c],
          filePath |-> FilePath(callId[c], callVideo[c]),
          fileName |-> FilePath(callId[c], callVideo[c])]
    [] callPc[c] = "failed" -> [tag |-> "throw", message |-> "Download failed"]
    [] OTHER -> [tag |-> "pending"]

-----------------------------------------------------------------------------
(* cleanupDownload, lines 118-140, and its two callers *)

\* lines 119-132 run without interruption: the record is looked up; without
\* one the function returns (pc "done"); with one the timer is cleared,
\* fs.unlink is called and the function suspends (pc "unlink")
CleanupEnterPc(id) == IF CacheHas(id) THEN "unlink" ELSE "done"
CleanupEnterTimer(id) == IF CacheHas(id) THEN TimerCleared(id) ELSE timer
CleanupEnterCount(id) ==
  IF CacheHas(id) THEN [unlinkCount EXCEPT ![id] = @ + 1] ELSE unlinkCount

\* lines 70-72: the timer fires and its callback calls cleanupDownload
TimerFire(id) ==
  /\ timer[id] = "armed"
  /\ tcPc' = [tcPc EXCEPT ![id] = CleanupEnterPc(id)]
  /\ unlinkCount' = CleanupEnterCount(id)
  /\ timer' = [timer EXCEPT ![id] = "fired"]
  /\ UNCHANGED <<tcErr, callPc, callId, callVideo, callType, nextId, downloadCache, disk,
                 manPc, manId, manErr, manRet, httpRes, urlVars, perf, codecVars>>

\* the file system runs the unlink of line 132 for the timer's cleanup
TimerUnlink(id, ok) ==
  /\ tcPc[id] = "unlink"
  /\ ok => disk[id] # "absent"
  /\ disk' = IF ok THEN [disk EXCEPT ![id] = "absent"] ELSE disk
  /\ tcErr' = [tcErr EXCEPT ![id] = ~ok]
  /\ tcPc' = [tcPc EXCEPT ![id] = "resume"]
  /\ UNCHANGED <<callPc, callId, callVideo, callType, nextId, downloadCache, timer,
                 unlinkCount, manPc, manId, manErr, manRet, httpRes, urlVars, perf, codecVars>>

\* cleanupDownload without the try block around fs.unlink: a rejection leaves
\* the function as an error
CleanupSettled_Uncaught(err) == IF err THEN "raised" ELSE "done"

\* lines 131-136: a rejection of fs.unlink is caught and logged, and the
\* function goes on to line 139 either way
CleanupSettled(err) == "done"

\* cleanupDownload without line 139
TimerResumeCache_Keeps(id) == downloadCache

\* line 139, in the timer's cleanup
TimerResumeCache(id) == CacheDelete(id)

\* lines 133-140: the continuation of the timer's cleanup: the result of the
\* unlink is logged and the record is removed
TimerResume(id) ==
  /\ tcPc[id] = "resume"
  /\ downloadCache' = TimerResumeCache(id)
  /\ tcPc' = [tcPc EXCEPT ![id] = CleanupSettled(tcErr[id])]
  /\ UNCHANGED <<tcErr, callPc, callId, callVideo, callType, nextId, timer, disk,
                 unlinkCount, manPc, manId, manErr, manRet, httpRes, urlVars, perf, codecVars>>

\* lines 147-152 (DELETE /api/cleanup/:id, index.js 230-246): without a
\* record manualCleanup returns false; with one it calls cleanupDownload
ManualEnterPc(id) == IF ~CacheHas(id) THEN "done" ELSE CleanupEnterPc(id)
\* manualCleanup without lines 148-150: cleanupDownload returns at once and
\* manualCleanup returns true
ManualEnterRet_Unchecked(id) == IF CleanupEnterPc(id) = "done" THEN "true" ELSE "none"

ManualEnterRet(id) == IF ~CacheHas(id) THEN "false" ELSE "none"
ManualEnterTimer(id) == IF ~CacheHas(id) THEN timer ELSE CleanupEnterTimer(id)
ManualEnterCount(id) ==
  IF ~CacheHas(id) THEN unlinkCount ELSE CleanupEnterCount(id)

ManualCleanup(m, id) ==
  /\ manPc[m] = "idle"
  /\ \A k \in Manuals : k < m => manPc[k] # "idle"
  /\ manId' = [manId EXCEPT ![m] = id]
  /\ manPc' = [manPc EXCEPT ![m] = ManualEnterPc(id)]
  /\ manRet' = [manRet EXCEPT ![m] = ManualEnterRet(id)]
  /\ timer' = ManualEnterTimer(id)
  /\ unlinkCount' = ManualEnterCount(id)
  /\ UNCHANGED <<callPc, callId, callVideo, callType, nextId, downloadCache, disk,
                 tcPc, tcErr, manErr, httpRes, urlVars, perf, codecVars>>

\* the file system runs the unlink of line 132 for a manual cleanup
ManualUnlink(m, ok) ==
  /\ manPc[m] = "unlink"
  /\ ok => disk[manId[m]] # "absent"
  /\ disk' = IF ok THEN [disk EXCEPT ![manId[m]] = "absent"] ELSE disk
  /\ manErr' = [manErr EXCEPT ![m] = ~ok]
  /\ manPc' = [manPc EXCEPT ![m] = "resume"]
  /\ UNCHANGED <<callPc, callId, callVideo, callType, nextId, downloadCache, timer,
                 unlinkCount, tcPc, tcErr, manId, manRet, httpRes, urlVars, perf, codecVars>>

\* lines 133-140 and 153: the continuation of cleanupDownload removes the
\* record, and manualCleanup returns true
\* cleanupDownload with line 139 inside the try block: the record stays when
\* fs.unlink rejects
ManualResumeCache_InsideTry(m) ==
  IF manErr[m] THEN downloadCache ELSE CacheDelete(manId[m])

\* line 139, in a manual cleanup
ManualResumeCache(m) == CacheDelete(manId[m])

ManualResume(m) ==
  /\ manPc[m] = "resume"
  /\ downloadCache' = ManualResumeCache(m)
  /\ manRet' = [manRet EXCEPT ![m] =
                  IF CleanupSettled(manErr[m]) = "done" THEN "true" ELSE "none"]
  /\ manPc' = [manPc EXCEPT ![m] = CleanupSettled(manErr[m])]
  /\ UNCHANGED <<callPc, callId, callVideo, callType, nextId, timer, disk,
                 unlinkCount, tcPc, tcErr, manId, manErr, httpRes, urlVars, perf, codecVars>>

-----------------------------------------------------------------------------
(* index.js, GET /api/download/:id, lines 174-201 *)

\* the handler without lines 178-183: the file is served when it is there
DownloadStatus_FromDisk(id) == IF disk[id] = "absent" THEN 404 ELSE 200

\* 404 without a record; otherwise res.sendFile streams the file (200) or
\* fails because the file is not there (500)
DownloadStatus(id) ==
  IF GetDownloadInfo(id) = Null THEN 404
  ELSE IF disk[id] = "absent" THEN 500 ELSE 200

\* line 188
ContentType(extension) == IF extension = ".mp4" THEN "video/mp4" ELSE "audio/mp4"

\* the Content-Type of the response: that of line 188 when the file is sent,
\* and that of res.json in lines 180 and 195
ServedType(id) ==
  IF GetDownloadInfo(id) = Null THEN "application/json"
  ELSE IF DownloadStatus(id) = 200
       THEN ContentType(GetDownloadInfo(id).metadata.extension)
       ELSE "application/json"

\* the handler removing the record once it has answered
HttpDownload_Consumes(id) ==
  /\ httpRes' = [id |-> id, status |-> DownloadStatus(id), contentType |-> ServedType(id)]
  /\ downloadCache' = CacheDelete(id)
  /\ UNCHANGED <<callPc, callId, callVideo, callType, nextId, timer,
                 disk, unlinkCount, tcPc, tcErr, manPc, manId, manErr, manRet,
                 urlVars, perf, codecVars>>

HttpDownload(id) ==
  /\ httpRes' = [id |-> id, status |-> DownloadStatus(id), contentType |-> ServedType(id)]
  /\ UNCHANGED <<callPc, callId, callVideo, callType, nextId, downloadCache, timer,
                 disk, unlinkCount, tcPc, tcErr, manPc, manId, manErr, manRet,
                 urlVars, perf, codecVars>>

\* index.js lines 252-254, GET /api/stats: the snapshot of getStats is sent
HttpStats ==
  /\ httpRes' = [id |-> NoId, status |-> 200, contentType |-> "application/json",
                 body |-> GetStats]
  /\ UNCHANGED <<callPc, callId, callVideo, callType, nextId, downloadCache, timer,
                 disk, unlinkCount, tcPc, tcErr, manPc, manId, manErr, manRet,
                 urlVars, perf, codecVars>>

-----------------------------------------------------------------------------
(* urlDecryptor.js.  A JavaScript string is the sequence of its UTF-16     *)
(* code units.                                                             *)

\* JavaScript values: null, undefined, a string, and a thrown Error
JsNull == [tag |-> "null"]
JsUndefined == [tag |-> "undefined"]
JsString(s) == [tag |-> "string", s |-> s]
JsThrow(message, input, got) ==
  [tag |-> "throw", message |-> message, input |-> input, got |-> got]

\* String.prototype.startsWith
StartsWith(s, prefix) ==
  /\ Len(s) >= Len(prefix)
  /\ SubSeq(s, 1, Len(prefix)) = prefix

\* line 6: "TT18WlV5TXVeLXFXYn1WTF5qSmR9TXYpOHklYlFXWGY+SUZCRGNKPiU0emcyQ2l8dGVsamBkVlpA"
SECRET_KEY ==
  <<84, 84, 49, 56, 87, 108, 86, 53, 84, 88, 86, 101, 76, 88, 70, 88, 89,
    110, 49, 87, 84, 70, 53, 113, 83, 109, 82, 57, 84, 88, 89, 112, 79, 72,
    107, 108, 89, 108, 70, 88, 87, 71, 89, 43, 83, 85, 90, 67, 82, 71, 78,
    75, 80, 105, 85, 48, 101, 109, 99, 121, 81, 50, 108, 56, 100, 71, 86,
    115, 97, 109, 66, 107, 86, 108, 112, 65>>

\* line 14: "A".."Z", "a".."z", "0".."9", "+", "/"
alphabet ==
  <<65, 66, 67, 68, 69, 70, 71, 72, 73, 74, 75, 76, 77, 78, 79, 80, 81, 82,
    83, 84, 85, 86, 87, 88, 89, 90, 97, 98, 99, 100, 101, 102, 103, 104,
    105, 106, 107, 108, 109, 110, 111, 112, 113, 114, 115, 116, 117, 118,
    119, 120, 121, 122, 48, 49, 50, 51, 52, 53, 54, 55, 56, 57, 43, 47>>

\* the lookup without the default of line 29: -1 where k has no such key
AlphabetValue_Strict(ch) ==
  IF \E i \in 1..64 : alphabet[i] = ch
  THEN (CHOOSE i \in 1..64 : alphabet[i] = ch) - 1
  ELSE -1

\* lines 15-20 and 29: k[index], and 0 where k has no such key
AlphabetValue(ch) ==
  IF \E i \in 1..64 : alphabet[i] = ch
  THEN (CHOOSE i \in 1..64 : alphabet[i] = ch) - 1
  ELSE 0

\* l << 6 on an accumulator of 8 bits
ShiftLeft6_Narrow(l) == (l % 4) * 64

\* line 31, l << 6: the low 32 bits of l * 64, read as a signed integer
ShiftLeft6(l) ==
  LET low == l % 67108864
  IN IF low >= 33554432 THEN (low - 67108864) * 64 ELSE low * 64

RECURSIVE Pow2(_)
Pow2(n) == IF n = 0 THEN 1 ELSE 2 * Pow2(n - 1)

\* line 36, (l >> c) & 255: the sign-propagating shift, then the low 8 bits
ShiftRightByte(l, c) == (l \div Pow2(c)) % 256

\* registerCharPool dropping a zero byte of the last symbol only
KeepByte_LastOnly(b, d, h) == b # 0 \/ d < h - 1

\* registerCharPool without the condition of line 38: every byte is kept
KeepByte_Always(b, d, h) == TRUE

\* line 38: a zero byte is kept unless it comes from one of the last two symbols
KeepByte(b, d, h) == b # 0 \/ d < h - 2

\* lines 34-41: the while loop; d is the 0-based position of the symbol
RECURSIVE Drain(_, _, _, _, _)
Drain(l, c, d, h, charPool) ==
  IF c >= 8
  THEN LET c2 == c - 8
           b == ShiftRightByte(l, c2)
       IN Drain(l, c2, d, h, IF KeepByte(b, d, h) THEN Append(charPool, b) ELSE charPool)
  ELSE [c |-> c, charPool |-> charPool]

\* the body of the for loop counting 8 bits for a symbol
DecodeRound_WideSymbols(st, key, d) ==
  LET a == AlphabetValue(key[d + 1])
      l2 == ShiftLeft6(st.l) + a
      r == Drain(l2, st.c + 8, d, Len(key), st.charPool)
  IN [l |-> l2, c |-> r.c, charPool |-> r.charPool]

\* lines 28-41: the body of the for loop, for the symbol at position d
DecodeRound(st, key, d) ==
  LET a == AlphabetValue(key[d + 1])
      l2 == ShiftLeft6(st.l) + a
      r == Drain(l2, st.c + 6, d, Len(key), st.charPool)
  IN [l |-> l2, c |-> r.c, charPool |-> r.charPool]

\* lines 27-42: the for loop over positions lo..hi-1 in ascending order (the
\* first half is computed before the second is entered, which keeps the
\* evaluation shallow)
RECURSIVE DecodeLoop(_, _, _, _)
DecodeLoop(st, key, lo, hi) ==
  IF hi - lo = 0 THEN st
  ELSE IF hi - lo = 1 THEN DecodeRound(st, key, lo)
  ELSE LET mid == (lo + hi) \div 2
           first == DecodeLoop(st, key, lo, mid)
       IN IF first.c \in 0..7 THEN DecodeLoop(first, key, mid, hi) ELSE first

\* lines 13-45
registerCharPool(key) ==
  DecodeLoop([l |-> 0, c |-> 0, charPool |-> <<>>], key, 0, Len(key)).charPool

\* lines 24 and 31: the accumulator l when the loop is over
Accumulator(key) ==
  DecodeLoop([l |-> 0, c |-> 0, charPool |-> <<>>], key, 0, Len(key)).l

\* line 48
REGISTERED_SECRET_CHAR_POOL == registerCharPool(SECRET_KEY)

\* the swap without its temporary: a[b] takes the value of a[h], which keeps it
Swap_Overwrites(a, b, h) == [a EXCEPT ![b] = a[h]]

\* lines 75-77 and 90-92: a[b] and a[h] change places
Swap(a, b, h) == [a EXCEPT ![b] = a[h], ![h] = a[b]]

\* lines 73-77: one round of the key schedule, at slot b; st.pool is the
\* module's REGISTERED_SECRET_CHAR_POOL, which the round reads
KeyScheduleRound(st, b) ==
  LET pool == st.pool
      h2 == (st.h + st.a[b] + pool[(b % Len(pool)) + 1]) % 256
  IN [a |-> Swap(st.a, b, h2), h |-> h2, pool |-> pool]

\* lines 72-78: the rounds of slots lo..hi-1 in ascending order (the first
\* half is computed before the second is entered, which keeps the evaluation
\* shallow)
RECURSIVE KeySchedule(_, _, _)
KeySchedule(st, lo, hi) ==
  IF hi - lo = 1
  THEN KeyScheduleRound(st, lo)
  ELSE LET mid == (lo + hi) \div 2
           first == KeySchedule(st, lo, mid)
       IN IF first.h \in 0..255 THEN KeySchedule(first, mid, hi) ELSE first

\* the array kept from one call to the next instead of a new one
FreshPermutation_Reused(left) == IF left = <<>> THEN [i \in 0..255 |-> i] ELSE left

\* lines 65-68: a new array, filled with 0..255, whatever array an earlier
\* call left behind
FreshPermutation(left) == [i \in 0..255 |-> i]

\* lines 65-78: the array and the pool after the key schedule of a call that
\* follows one that left the array left
Scheduled(left, pool) ==
  KeySchedule([a |-> FreshPermutation(left), h |-> 0, pool |-> pool], 0, 256)

\* lines 65-78: the permutation after the key schedule
ScheduledPermutation == Scheduled(<<>>, REGISTERED_SECRET_CHAR_POOL).a

\* x ^ y on 8-bit values
RECURSIVE Xor(_, _, _)
Xor(x, y, bits) ==
  IF bits = 0 THEN 0
  ELSE ((x + y) % 2) + 2 * Xor(x \div 2, y \div 2, bits - 1)

\* the keystream loop adding the keystream byte instead of xor-ing it
KeystreamRound_Adds(st, publicCharPool, e) ==
  LET b2 == (st.b + 1) % 256
      h2 == (st.h + st.a[b2]) % 256
      a2 == Swap(st.a, b2, h2)
      keystream == a2[(a2[b2] + a2[h2]) % 256]
  IN [a |-> a2, b |-> b2, h |-> h2,
      urlDecoded |-> Append(st.urlDecoded, (publicCharPool[e + 1] + keystream) % 256)]

\* lines 86-96: the body of the keystream loop, for the byte at position e
KeystreamRound(st, publicCharPool, e) ==
  LET b2 == (st.b + 1) % 256
      h2 == (st.h + st.a[b2]) % 256
      a2 == Swap(st.a, b2, h2)
      keystream == a2[(a2[b2] + a2[h2]) % 256]
  IN [a |-> a2, b |-> b2, h |-> h2,
      urlDecoded |-> Append(st.urlDecoded, Xor(publicCharPool[e + 1], keystream, 8))]

\* lines 85-97: the loop over positions lo..hi-1 in ascending order
RECURSIVE KeystreamLoop(_, _, _, _)
KeystreamLoop(st, publicCharPool, lo, hi) ==
  IF hi - lo = 0 THEN st
  ELSE IF hi - lo = 1 THEN KeystreamRound(st, publicCharPool, lo)
  ELSE LET mid == (lo + hi) \div 2
           first == KeystreamLoop(st, publicCharPool, lo, mid)
       IN IF first.h \in 0..255 THEN KeystreamLoop(first, publicCharPool, mid, hi)
          ELSE first

\* lines 81-97: the cipher applied to the bytes of publicCharPool
Combine(publicCharPool) ==
  KeystreamLoop([a |-> ScheduledPermutation, b |-> 0, h |-> 0, urlDecoded |-> <<>>],
                publicCharPool, 0, Len(publicCharPool)).urlDecoded

\* lines 62-97: the decoded and decrypted payload of "e:..."
DecodePayload(urlEncoded) ==
  Combine(registerCharPool(SubSeq(urlEncoded, 3, Len(urlEncoded))))

\* "e:" and "http"
Marker == <<101, 58>>
Http == <<104, 116, 116, 112>>

\* processRecording with line 57 testing the length alone
IsEncoded_ByLength(urlEncoded) == ~(Len(urlEncoded) < 2)

\* line 57
IsEncoded(urlEncoded) == ~(Len(urlEncoded) < 2 \/ ~StartsWith(urlEncoded, Marker))

\* Validated with an error that names the input alone
Validated_InputOnly(urlEncoded, urlDecoded) ==
  IF ~StartsWith(urlDecoded, Http)
  THEN JsThrow("Failed to decode URL", urlEncoded, <<>>)
  ELSE JsString(urlDecoded)

\* Validated without the check of line 100
Validated_Unchecked(urlEncoded, urlDecoded) == JsString(urlDecoded)

\* lines 99-104
Validated(urlEncoded, urlDecoded) ==
  IF ~StartsWith(urlDecoded, Http)
  THEN JsThrow("Failed to decode URL", urlEncoded, urlDecoded)
  ELSE JsString(urlDecoded)

\* lines 55-105
processRecording(urlEncoded) ==
  IF ~IsEncoded(urlEncoded)
  THEN JsString(urlEncoded)
  ELSE Validated(urlEncoded, DecodePayload(urlEncoded))

\* decryptMediaUrl testing for null and undefined alone
decryptMediaUrl_NullOnly(mediaUrl) ==
  IF mediaUrl.tag \in {"null", "undefined"}
  THEN JsNull
  ELSE processRecording(mediaUrl.s)

\* lines 112-117: !mediaUrl holds of null, undefined and ""
decryptMediaUrl(mediaUrl) ==
  IF mediaUrl.tag \in {"null", "undefined"} \/ (mediaUrl.tag = "string" /\ mediaUrl.s = <<>>)
  THEN JsNull
  ELSE processRecording(mediaUrl.s)

-----------------------------------------------------------------------------
(* Calls of decryptMediaUrl *)

\* The longest candidate that is spelled out character by character.
MaxCandidateLen == 3

\* "e", ":", "h", "A"
CandidateChars == {101, 58, 104, 65}

RECURSIVE StringsUpTo(_)
StringsUpTo(n) ==
  IF n = 0 THEN {<<>>}
  ELSE LET shorter == StringsUpTo(n - 1)
       IN shorter \cup {Append(w, ch) : w \in shorter, ch \in CandidateChars}

\* index.js line 297: "e:TT18WlV5...dVlpA"
testEncryptedUrl ==
  <<101, 58, 84, 84, 49, 56, 87, 108, 86, 53, 84, 88, 86, 101, 76, 88, 70,
    88, 89, 110, 49, 87, 84, 70, 53, 113, 83, 109, 82, 57, 84, 88, 89, 112,
    79, 72, 107, 108, 89, 108, 70, 88, 87, 71, 89, 43, 83, 85, 90, 67, 82,
    71, 78, 75, 80, 105, 85, 52, 101, 109, 99, 121, 81, 50, 108, 56, 100,
    71, 86, 115, 97, 109, 66, 107, 86, 108, 112, 65>>

\* index.js line 298: "https://example.com/test.mp4"
testPlainUrl ==
  <<104, 116, 116, 112, 115, 58, 47, 47, 101, 120, 97, 109, 112, 108, 101,
    46, 99, 111, 109, 47, 116, 101, 115, 116, 46, 109, 112, 52>>

\* "e:p4MNZQ", "e:p4MNZcQOvSA" and "e:p4MNZY0b": the obfuscated forms of "http",
\* "http://a" and "https:" under SECRET_KEY; "ftp://a"
SampleUrls ==
  {<<101, 58, 112, 52, 77, 78, 90, 81>>,
   <<101, 58, 112, 52, 77, 78, 90, 99, 81, 79, 118, 83, 65>>,
   <<101, 58, 112, 52, 77, 78, 90, 89, 48, 98>>,
   <<102, 116, 112, 58, 47, 47, 97>>,
   testEncryptedUrl, testPlainUrl}

\* what a caller passes: null, undefined, short strings with and without the
\* marker, and the samples
Candidates ==
  {JsNull, JsUndefined}
  \cup {JsString(w) : w \in StringsUpTo(MaxCandidateLen)}
  \cup {JsString(Marker \o w) : w \in StringsUpTo(MaxCandidateLen)}
  \cup {JsString(w) : w \in SampleUrls}

\* one call of decryptMediaUrl
DecryptCall(mediaUrl) ==
  /\ candidate' = mediaUrl
  /\ decrypted' = decryptMediaUrl(mediaUrl)
  /\ UNCHANGED <<dmVars, perf, cipher, fnVars>>

\* a call with one of the candidates
DecryptCandidate(mediaUrl) ==
  /\ DecryptCall(mediaUrl)
  /\ UNCHANGED obfuscated

-----------------------------------------------------------------------------
(* The cipher of processRecording applied to byte sequences, and the        *)
(* obfuscation that decryptMediaUrl undoes                                  *)

\* The longest byte sequence given to the cipher.
MaxCipherLen == 3

\* 0, "h", the first keystream byte, and the largest byte
CipherBytes == {0, 104, 207, 255}

RECURSIVE BytesUpTo(_)
BytesUpTo(n) ==
  IF n = 0 THEN {<<>>}
  ELSE LET shorter == BytesUpTo(n - 1)
       IN shorter \cup {Append(w, b) : w \in shorter, b \in CipherBytes}

\* no sequence has been given to the cipher
CipherIdle == [plain |-> <<>>, text |-> <<>>, rounds |-> 0]

\* a byte sequence is chosen
CipherStart(P) ==
  /\ cipher' = [plain |-> P, text |-> P, rounds |-> 0]
  /\ UNCHANGED <<dmVars, urlVars, perf, obfuscated, fnVars>>

\* lines 64-97 are run on the sequence, from a freshly initialised permutation
CipherApply ==
  /\ cipher.rounds < 2
  /\ cipher' = [cipher EXCEPT !.text = Combine(cipher.text), !.rounds = @ + 1]
  /\ UNCHANGED <<dmVars, urlVars, perf, obfuscated, fnVars>>

\* the 6-bit symbols held by the top of an accumulator of nbits bits
RECURSIVE Symbols(_, _)
Symbols(acc, nbits) ==
  IF nbits >= 6
  THEN <<alphabet[(acc \div Pow2(nbits - 6)) + 1]>>
       \o Symbols(acc % Pow2(nbits - 6), nbits - 6)
  ELSE <<>>

\* the packing that registerCharPool unpacks: the bits of the bytes, most
\* significant first, cut into 6-bit symbols of the alphabet; the last symbol
\* is filled with zero bits, and there are no pad characters
RECURSIVE EncodeFrom(_, _, _, _)
EncodeFrom(bytes, i, acc, nbits) ==
  IF i > Len(bytes)
  THEN IF nbits = 0 THEN <<>> ELSE <<alphabet[acc * Pow2(6 - nbits) + 1]>>
  ELSE LET acc2 == acc * 256 + bytes[i]
           n2 == nbits + 8
       IN Symbols(acc2, n2) \o EncodeFrom(bytes, i + 1, acc2 % Pow2(n2 % 6), n2 % 6)

CharPoolEncode(bytes) == EncodeFrom(bytes, 1, 0, 0)

\* the obfuscated form of a plaintext: the marker, then the packed ciphertext
Obfuscated(P) == Marker \o CharPoolEncode(Combine(P))

\* The longest tail of a plaintext URL after "http".
MaxTailLen == 4

\* ":", "/" and "!"; the sixth keystream byte is the code of "!"
TailChars == {58, 47, 33}

RECURSIVE TailsUpTo(_)
TailsUpTo(n) ==
  IF n = 0 THEN {<<>>}
  ELSE LET shorter == TailsUpTo(n - 1)
       IN shorter \cup {Append(w, ch) : w \in shorter, ch \in TailChars}

\* the plaintext URLs: "http", "http:", "http://", "http:!", ...
PlainUrls == {Http \o w : w \in TailsUpTo(MaxTailLen)}

NothingObfuscated == [plain |-> <<>>, url |-> <<>>]

\* a plaintext URL is obfuscated and decryptMediaUrl is called with the
\* obfuscated form
RoundTrip(P) ==
  /\ obfuscated' = [plain |-> P, url |-> Obfuscated(P)]
  /\ DecryptCall(JsString(Obfuscated(P)))

-----------------------------------------------------------------------------
(* smuleClient.js *)

\* a value is truthy unless it is null, undefined or ""
Truthy(v) == v.tag = "string" /\ v.s # <<>>

\* x || y
OrElse(x, y) == IF Truthy(x) THEN x ELSE y

\* the path segments that match /^\d+_\d+$/ or /^\d{10,}$/ (line 290)
KeyLike == {"1234567890_1234567890", "1234567890"}

\* extractPerformanceKey taking the segment after "recording" in the second
\* format
extractPerformanceKey_SecondPart(pathParts) ==
  LET n == Len(pathParts)
  IN IF n = 0 THEN "null"
     ELSE IF pathParts[1] = "p" /\ n >= 2 THEN pathParts[2]
     ELSE IF pathParts[1] = "recording" /\ n >= 3 THEN pathParts[2]
     ELSE IF pathParts[1] = "sing-recording" /\ n >= 2 THEN pathParts[2]
     ELSE IF pathParts[1] = "sing" /\ n >= 3 /\ pathParts[2] = "recording" THEN pathParts[3]
     ELSE IF pathParts[1] = "performance" /\ n >= 2 THEN pathParts[2]
     ELSE "null"

\* lines 238-299, on the non-empty segments of the path of the normalized URL
\* (lines 240-242); "null" is JavaScript's null
extractPerformanceKey(pathParts) ==
  LET n == Len(pathParts)
  IN IF n = 0 THEN "null"
     ELSE IF pathParts[1] = "p" /\ n >= 2 THEN pathParts[2]
     ELSE IF pathParts[1] = "recording" /\ n >= 3 THEN pathParts[n]
     ELSE IF pathParts[1] = "recording" /\ n >= 3 /\ pathParts[2] = "p" THEN pathParts[3]
     ELSE IF pathParts[1] = "sing-recording" /\ n >= 2 THEN pathParts[2]
     ELSE IF pathParts[1] = "sing" /\ n >= 3 /\ pathParts[2] = "recording" THEN pathParts[3]
     ELSE IF pathParts[1] = "performance" /\ n >= 2 THEN pathParts[2]
     ELSE IF \E i \in 1..n : pathParts[i] \in KeyLike
          THEN pathParts[CHOOSE i \in 1..n :
                           /\ pathParts[i] \in KeyLike
                           /\ \A j \in 1..(i - 1) : pathParts[j] \notin KeyLike]
     ELSE "null"

\* a field whose decryption fails is left null
DecryptField_Swallows(v) ==
  IF Truthy(v) /\ decryptMediaUrl(v).tag # "throw" THEN decryptMediaUrl(v) ELSE JsNull

\* lines 362-375: the three URLs are decrypted in turn; the first failure
\* ends the call with "Failed to decrypt media URLs"
DecryptField(v) == IF Truthy(v) THEN decryptMediaUrl(v) ELSE JsNull

\* lines 343-378
processPerformanceData(performanceData) ==
  LET mediaUrl == DecryptField(performanceData.media_url)
      videoMediaUrl == DecryptField(performanceData.video_media_url)
      videoMediaMp4Url == DecryptField(performanceData.video_media_mp4_url)
  IN IF "throw" \in {mediaUrl.tag, videoMediaUrl.tag, videoMediaMp4Url.tag}
     THEN [tag |-> "throw", message |-> "Failed to decrypt media URLs"]
     ELSE [tag |-> "object",
           mediaUrl |-> mediaUrl,
           videoMediaUrl |-> videoMediaUrl,
           videoMediaMp4Url |-> videoMediaMp4Url]

\* lines 516-531: a URL found in the page is decrypted, and kept as it was
\* found when the decryption throws
DecryptOrKeep(match) ==
  LET url == decryptMediaUrl(match)
  IN IF url.tag = "throw" THEN match ELSE url

\* lines 533-539: the object built from the URLs found in the page
HtmlAttributes(mediaUrlMatch, videoUrlMatch) ==
  [tag |-> "object",
   mediaUrl |-> IF Truthy(mediaUrlMatch) THEN DecryptOrKeep(mediaUrlMatch) ELSE JsNull,
   videoMediaUrl |-> JsUndefined,
   videoMediaMp4Url |-> IF Truthy(videoUrlMatch) THEN DecryptOrKeep(videoUrlMatch) ELSE JsNull]

\* lines 464-548, on what the page holds: html.ok is false when the request or
\* the scan throws (lines 544-547); html.script is the performance object of
\* the first script tag that holds one, or null; html.media_url and
\* html.video_media_mp4_url are what the patterns of lines 504-505 match
parseHtmlForMedia(html) ==
  IF ~html.ok THEN JsNull
  ELSE LET fromScript ==
             IF html.script.tag = "object" THEN processPerformanceData(html.script)
             ELSE [tag |-> "throw", message |-> "no script"]
       IN IF fromScript.tag = "object" THEN fromScript
          ELSE IF Truthy(html.media_url) \/ Truthy(html.video_media_mp4_url)
               THEN HtmlAttributes(html.media_url, html.video_media_mp4_url)
               ELSE JsNull

\* lines 582-587 and 608-613: { ...processedData, mediaUrl: ..., videoMediaMp4Url: ... }
Merged(processedData, htmlData) ==
  [processedData EXCEPT
     !.mediaUrl = OrElse(htmlData.mediaUrl, processedData.mediaUrl),
     !.videoMediaMp4Url = OrElse(htmlData.videoMediaMp4Url, processedData.videoMediaMp4Url)]

\* lines 576 and 605
NoMedia(data) == ~Truthy(data.mediaUrl) /\ ~Truthy(data.videoMediaMp4Url)

\* lines 580 and 624
HasMedia(htmlData) ==
  htmlData.tag = "object" /\ (Truthy(htmlData.mediaUrl) \/ Truthy(htmlData.videoMediaMp4Url))

\* line 594
Includes404(message) == message = "Smule API error: 404"

\* what the remote side can send

\* "http://a", its obfuscated form, and "e:AAAA", which does not decode to a URL
PlainUrl == JsString(<<104, 116, 116, 112, 58, 47, 47, 97>>)
EncodedUrl == JsString(<<101, 58, 112, 52, 77, 78, 90, 99, 81, 79, 118, 83, 65>>)
BrokenUrl == JsString(<<101, 58, 65, 65, 65, 65>>)

MediaValues == {JsUndefined, PlainUrl, EncodedUrl, BrokenUrl}

\* the JSON of /p/KEY/json
RawDatas ==
  [tag : {"object"}, media_url : MediaValues,
   video_media_url : {JsUndefined, BrokenUrl},
   video_media_mp4_url : MediaValues]

\* what fetchPerformance throws (lines 328-335)
FetchErrors ==
  {"Smule API error: 404", "Smule API error: 500", "Failed to fetch performance"}

\* the pages
Htmls ==
  [ok : BOOLEAN,
   script : {JsNull} \cup [tag : {"object"}, media_url : {JsUndefined, EncodedUrl, BrokenUrl},
                           video_media_url : {JsUndefined},
                           video_media_mp4_url : {JsUndefined, EncodedUrl}],
   media_url : {JsUndefined, PlainUrl, EncodedUrl, BrokenUrl},
   video_media_mp4_url : {JsUndefined, EncodedUrl, BrokenUrl}]

\* the paths of the URLs a client or a redirect can name
SmulePaths ==
  {<<"p", "1234567890_1234567890">>,
   <<"recording", "song", "1234567890">>,
   <<"sing-recording", "777">>,
   <<"user", "profile">>,
   <<>>}

-----------------------------------------------------------------------------
(* getPerformanceFromUrl, lines 555-631: one call, from await to await *)

PerfIdle ==
  [pc |-> "idle", smuleUrl |-> <<>>, performanceKey |-> "null",
   redirectedUrl |-> <<>>, processedData |-> JsNull, error |-> "none",
   result |-> JsNull]

PerfReturn(p, value) == [p EXCEPT !.pc = "returned", !.result = value]
PerfThrow(p, message) ==
  [p EXCEPT !.pc = "thrown", !.result = [tag |-> "throw", message |-> message]]

\* lines 573-591 and 592-623: what follows the answer of the first
\* fetchPerformance; answer is the JSON, or the message of the error thrown
AfterFetch1(p, answer) ==
  LET processedData ==
        IF answer.tag = "object" THEN processPerformanceData(answer) ELSE answer
  IN IF processedData.tag = "object"
     THEN IF NoMedia(processedData)
          THEN [p EXCEPT !.pc = "html1", !.processedData = processedData]
          ELSE PerfReturn(p, processedData)
     ELSE IF Includes404(processedData.message)
          THEN [p EXCEPT !.pc = "redirect2", !.error = processedData.message]
          ELSE [p EXCEPT !.pc = "html3", !.error = processedData.message]

\* lines 556-572: the call; without a key in the URL it follows redirects first
PerfCall(smuleUrl) ==
  /\ perf.pc = "idle"
  /\ perf' = LET key == extractPerformanceKey(smuleUrl)
                 p == [perf EXCEPT !.smuleUrl = smuleUrl, !.performanceKey = key]
             IN IF key = "null" THEN [p EXCEPT !.pc = "redirect1"]
                ELSE [p EXCEPT !.pc = "fetch1"]
  /\ UNCHANGED <<dmVars, urlVars, codecVars>>

\* lines 561-569: followRedirects has returned redirectedUrl
PerfRedirected1(redirectedUrl) ==
  /\ perf.pc = "redirect1"
  /\ perf' = LET key == extractPerformanceKey(redirectedUrl)
             IN IF key = "null"
                THEN PerfThrow(perf, "Invalid Smule URL: Could not extract performance key")
                ELSE [perf EXCEPT !.pc = "fetch1", !.performanceKey = key]
  /\ UNCHANGED <<dmVars, urlVars, codecVars>>

\* lines 572-591: fetchPerformance has returned rawData
PerfFetched1(rawData) ==
  /\ perf.pc = "fetch1"
  /\ perf' = AfterFetch1(perf, rawData)
  /\ UNCHANGED <<dmVars, urlVars, codecVars>>

\* lines 592-623: fetchPerformance has thrown
PerfFetchFailed1(message) ==
  /\ perf.pc = "fetch1"
  /\ perf' = AfterFetch1(perf, [tag |-> "throw", message |-> message])
  /\ UNCHANGED <<dmVars, urlVars, codecVars>>

\* lines 578-591: parseHtmlForMedia has returned
PerfHtml1(html) ==
  /\ perf.pc = "html1"
  /\ perf' = LET htmlData == parseHtmlForMedia(html)
             IN IF HasMedia(htmlData)
                THEN PerfReturn(perf, Merged(perf.processedData, htmlData))
                ELSE PerfReturn(perf, perf.processedData)
  /\ UNCHANGED <<dmVars, urlVars, codecVars>>

\* lines 596-601 and 621-623: followRedirects has returned after a 404
PerfRedirected2(redirectedUrl) ==
  /\ perf.pc = "redirect2"
  /\ perf' = LET newKey == extractPerformanceKey(redirectedUrl)
             IN IF newKey # "null" /\ newKey # perf.performanceKey
                THEN [perf EXCEPT !.pc = "fetch2", !.redirectedUrl = redirectedUrl]
                ELSE [perf EXCEPT !.pc = "html3"]
  /\ UNCHANGED <<dmVars, urlVars, codecVars>>

\* lines 601-617: the second fetchPerformance has returned; an error of
\* processPerformanceData is not caught here
PerfFetched2(rawData) ==
  /\ perf.pc = "fetch2"
  /\ perf' = LET processedData == processPerformanceData(rawData)
             IN IF processedData.tag = "throw"
                THEN PerfThrow(perf, processedData.message)
                ELSE IF NoMedia(processedData)
                     THEN [perf EXCEPT !.pc = "html2", !.processedData = processedData]
                     ELSE PerfReturn(perf, processedData)
  /\ UNCHANGED <<dmVars, urlVars, codecVars>>

\* line 601: the second fetchPerformance has thrown
PerfFetchFailed2(message) ==
  /\ perf.pc = "fetch2"
  /\ perf' = PerfThrow(perf, message)
  /\ UNCHANGED <<dmVars, urlVars, codecVars>>

\* lines 606-617
PerfHtml2(html) ==
  /\ perf.pc = "html2"
  /\ perf' = LET htmlData == parseHtmlForMedia(html)
             IN IF htmlData.tag = "object"
                THEN PerfReturn(perf, Merged(perf.processedData, htmlData))
                ELSE PerfReturn(perf, perf.processedData)
  /\ UNCHANGED <<dmVars, urlVars, codecVars>>

\* lines 621-629: the last resort
PerfHtml3(html) ==
  /\ perf.pc = "html3"
  /\ perf' = LET htmlData == parseHtmlForMedia(html)
             IN IF HasMedia(htmlData)
                THEN PerfReturn(perf, htmlData)
                ELSE PerfThrow(perf, perf.error)
  /\ UNCHANGED <<dmVars, urlVars, codecVars>>

\* the next call
PerfAgain ==
  /\ perf.pc \in {"returned", "thrown"}
  /\ perf' = PerfIdle
  /\ UNCHANGED <<dmVars, urlVars, codecVars>>

-----------------------------------------------------------------------------
(* Calls of extractPerformanceKey.  A URL is its scheme as written ("" when *)
(* there is none), its host and the segments of its path, "" for the empty  *)
(* segment that a doubled or trailing slash makes.                          *)

\* lines 216-231: "http://" becomes "https://", a missing scheme is added, and
\* the host smule.com becomes www.smule.com
normalizeSmuleUrl(url) ==
  LET secure == IF url.scheme = "http://" THEN [url EXCEPT !.scheme = "https://"] ELSE url
      schemed == IF secure.scheme # "https://" THEN [secure EXCEPT !.scheme = "https://"] ELSE secure
  IN IF schemed.host = "smule.com" THEN [schemed EXCEPT !.host = "www.smule.com"] ELSE schemed

\* lines 241-242: urlObj.pathname.split('/').filter(p => p)
PathParts(url) == SelectSeq(url.path, LAMBDA part : part # "")

\* lines 238-299, from the URL
KeyOfUrl(url) == extractPerformanceKey(PathParts(normalizeSmuleUrl(url)))

\* README.md lines 456-476: the six documented shapes, for a key
Shapes == {"p", "recording", "recording/p", "sing-recording", "sing/recording", "performance"}

ShapePath(shape, key) ==
  CASE shape = "p" -> <<"p", key>>
    [] shape = "recording" -> <<"recording", "bruno-mars-uptown-funk", key>>
    [] shape = "recording/p" -> <<"recording", "p", key>>
    [] shape = "sing-recording" -> <<"sing-recording", key>>
    [] shape = "sing/recording" -> <<"sing", "recording", key>>
    [] shape = "performance" -> <<"performance", key>>

Schemes == {"http://", "https://", ""}
Hosts == {"smule.com", "www.smule.com"}
PerformanceKeys == {"1234567890_1234567890", "1234567890", "abc"}

NothingExtracted == [shape |-> "none", key |-> "none", url |-> <<>>, result |-> "none"]

\* one call, with a URL of a documented shape
ExtractCall(shape, key, scheme, host) ==
  /\ extracted' =
       LET url == [scheme |-> scheme, host |-> host, path |-> ShapePath(shape, key)]
       IN [shape |-> shape, key |-> key, url |-> url, result |-> KeyOfUrl(url)]
  /\ UNCHANGED <<dmVars, urlVars, perf, cipher, obfuscated, packed, session, redirect, rounds, processed>>

-----------------------------------------------------------------------------
(* Calls of registerCharPool *)

\* The longest input that is spelled out symbol by symbol.
MaxSymbols == 3

\* "A" (value 0), "/" (value 63), "h", and "=", an e with an acute accent and
\* the euro sign, which are not in the alphabet
DecodeChars == {65, 47, 104, 61, 233, 8364}

RECURSIVE SymbolsUpTo(_)
SymbolsUpTo(n) ==
  IF n = 0 THEN {<<>>}
  ELSE LET shorter == SymbolsUpTo(n - 1)
       IN shorter \cup {Append(w, ch) : w \in shorter, ch \in DecodeChars}

\* longer inputs: runs of "A" and of "/", "AAAA=AAA", the key and the
\* payloads of the samples
DecodeSamples ==
  {[i \in 1..8 |-> 65], [i \in 1..8 |-> 47], [i \in 1..7 |-> 47],
   <<65, 65, 65, 65, 61, 65, 65, 65>>,
   SECRET_KEY} \cup {SubSeq(w, 3, Len(w)) : w \in SampleUrls}

DecodeInputs == SymbolsUpTo(MaxSymbols) \cup DecodeSamples

NothingDecoded == [tag |-> "idle", key |-> <<>>, charPool |-> <<>>, l |-> 0]

\* one call
DecodeCall(key) ==
  /\ packed' = [tag |-> "decoded", key |-> key, charPool |-> registerCharPool(key),
                l |-> Accumulator(key)]
  /\ UNCHANGED <<dmVars, urlVars, perf, cipher, obfuscated, extracted, session, redirect, rounds, processed>>

-----------------------------------------------------------------------------
(* Calls of processRecording one after another in one process.  session     *)
(* holds the module's pool, the array the latest call allocated ("<<>>"     *)
(* before any), the latest call and the first call.                         *)

NoCall == [urlEncoded |-> <<>>, result |-> JsNull]

SessionStart ==
  [secretPool |-> REGISTERED_SECRET_CHAR_POOL, left |-> <<>>,
   calls |-> "none", latest |-> NoCall, first |-> NoCall]

\* lines 55-105, with the array and the pool the call leaves behind
RecordingRun(left, pool, urlEncoded) ==
  IF ~IsEncoded(urlEncoded)
  THEN [result |-> JsString(urlEncoded), left |-> left, pool |-> pool]
  ELSE LET publicCharPool == registerCharPool(SubSeq(urlEncoded, 3, Len(urlEncoded)))
           scheduled == Scheduled(left, pool)
           final == KeystreamLoop([a |-> scheduled.a, b |-> 0, h |-> 0, urlDecoded |-> <<>>],
                                  publicCharPool, 0, Len(publicCharPool))
       IN [result |-> Validated(urlEncoded, final.urlDecoded),
           left |-> final.a, pool |-> scheduled.pool]

\* "e:", "e:A", "e:hh", and the samples
SessionCandidates == {Marker, Marker \o <<65>>, Marker \o <<104, 104>>} \cup SampleUrls

\* one call of processRecording, after whatever calls were made before
SessionCall(urlEncoded) ==
  /\ session' =
       LET run == RecordingRun(session.left, session.secretPool, urlEncoded)
           call == [urlEncoded |-> urlEncoded, result |-> run.result]
       IN [secretPool |-> run.pool, left |-> run.left,
           calls |-> IF session.calls = "none" THEN "one" ELSE "many",
           latest |-> call,
           first |-> IF session.calls = "none" THEN call ELSE session.first]
  /\ UNCHANGED <<dmVars, urlVars, perf, cipher, obfuscated, extracted, packed, redirect, rounds, processed>>

-----------------------------------------------------------------------------
(* followRedirects.  A call runs until it awaits the answer to its request, *)
(* the remote host answers or the request fails, and the call resumes.  The *)
(* request of line 394 is made without a timeout option, so nothing in the  *)
(* program ends a request that gets no answer.                              *)

\* line 389
maxRedirects == 5

NoUrl == [scheme |-> "", host |-> "", path |-> <<>>]

RedirectIdle ==
  [pc |-> "idle", smuleUrl |-> NoUrl, currentUrl |-> NoUrl, redirectCount |-> 0,
   response |-> [kind |-> "none"], returned |-> NoUrl]

\* the URLs followRedirects is called with
RedirectUrls ==
  {[scheme |-> "https://", host |-> "www.smule.com", path |-> <<"sing-recording", "1234567890_1234567890">>],
   [scheme |-> "http://", host |-> "smule.com", path |-> <<"p", "1234567890_1234567890">>],
   [scheme |-> "", host |-> "smule.com", path |-> <<>>]}

\* the Location headers of the answers: a path, which starts with "/", a URL,
\* which starts with "http", and a name relative to the current path
Locations ==
  {[kind |-> "path", path |-> <<"recording", "p", "1234567890_1234567890">>],
   [kind |-> "url", url |-> [scheme |-> "http://", host |-> "smule.com",
                             path |-> <<"sing-recording", "1234567890_1234567890">>]],
   [kind |-> "name", name |-> "abc"]}

\* what ends the await of line 394: a 3xx answer with a Location header, any
\* other answer, and a failure of the request
Responses ==
  {[kind |-> "redirect", location |-> l] : l \in Locations}
  \cup {[kind |-> "final"], [kind |-> "error"]}

\* lines 410-424: the URL the Location header names
Redirected(currentUrl, location) ==
  CASE location.kind = "path" -> [currentUrl EXCEPT !.path = location.path]
    [] location.kind = "url" -> location.url
    [] location.kind = "name" ->
         [currentUrl EXCEPT !.path =
            (IF @ = <<>> THEN <<>> ELSE SubSeq(@, 1, Len(@) - 1)) \o <<location.name>>]

\* lines 385-394: the call up to its first request
RedirectCall(smuleUrl) ==
  /\ redirect.pc \in {"idle", "returned"}
  /\ redirect' = [pc |-> "waiting", smuleUrl |-> smuleUrl,
                  currentUrl |-> normalizeSmuleUrl(smuleUrl), redirectCount |-> 0,
                  response |-> [kind |-> "none"], returned |-> NoUrl]
  /\ UNCHANGED <<dmVars, urlVars, perf, cipher, obfuscated, extracted, packed, session, rounds, processed>>

\* the remote host answers the request, or the request fails
RedirectAnswer(response) ==
  /\ redirect.pc = "waiting"
  /\ redirect' = [redirect EXCEPT !.pc = "answered", !.response = response]
  /\ UNCHANGED <<dmVars, urlVars, perf, cipher, obfuscated, extracted, packed, session, rounds, processed>>

\* lines 401-435: the call from the end of the await to the next request or
\* to its return
RedirectResume ==
  /\ redirect.pc = "answered"
  /\ redirect' =
       IF redirect.response.kind = "redirect"
       THEN LET currentUrl == Redirected(redirect.currentUrl, redirect.response.location)
                redirectCount == redirect.redirectCount + 1
            IN IF redirectCount < maxRedirects
               THEN [redirect EXCEPT !.pc = "waiting", !.currentUrl = currentUrl,
                                     !.redirectCount = redirectCount,
                                     !.response = [kind |-> "none"]]
               ELSE [redirect EXCEPT !.pc = "returned", !.currentUrl = currentUrl,
                                     !.redirectCount = redirectCount,
                                     !.returned = currentUrl]
       ELSE [redirect EXCEPT !.pc = "returned", !.returned = redirect.currentUrl]
  /\ UNCHANGED <<dmVars, urlVars, perf, cipher, obfuscated, extracted, packed, session, rounds, processed>>

-----------------------------------------------------------------------------
(* processRecording round by round.  rounds holds the locals of a call of   *)
(* an "e:" string after each iteration of the loop of lines 72-78 and of    *)
(* the loop of lines 85-97; b is the slot the latest iteration worked on.   *)

RoundsIdle ==
  [phase |-> "idle", urlEncoded |-> <<>>, publicCharPool |-> <<>>,
   a |-> <<>>, b |-> 0, h |-> 0, e |-> 0, urlDecoded |-> <<>>, result |-> JsNull]

\* "e:", "e:p4MNZQ", "e:p4MNZcQOvSA" and "e:" followed by SECRET_KEY
RoundsUrls ==
  {Marker, Marker \o SECRET_KEY,
   <<101, 58, 112, 52, 77, 78, 90, 81>>,
   <<101, 58, 112, 52, 77, 78, 90, 99, 81, 79, 118, 83, 65>>}

\* lines 55-73: the call up to the first iteration of the key schedule
RoundsStart(urlEncoded) ==
  /\ rounds.phase \in {"idle", "returned"}
  /\ IsEncoded(urlEncoded)
  /\ rounds' =
       LET st == KeyScheduleRound([a |-> FreshPermutation(rounds.a), h |-> 0,
                                   pool |-> REGISTERED_SECRET_CHAR_POOL], 0)
       IN [phase |-> "schedule", urlEncoded |-> urlEncoded,
           publicCharPool |-> registerCharPool(SubSeq(urlEncoded, 3, Len(urlEncoded))),
           a |-> st.a, b |-> 0, h |-> st.h, e |-> 0, urlDecoded |-> <<>>,
           result |-> JsNull]
  /\ UNCHANGED <<dmVars, urlVars, perf, cipher, obfuscated, extracted, packed, session, redirect,
                 processed>>

\* lines 72-78: the next iteration of the key schedule
ScheduleStep ==
  /\ rounds.phase = "schedule"
  /\ rounds.b < 255
  /\ rounds' =
       LET st == KeyScheduleRound([a |-> rounds.a, h |-> rounds.h,
                                   pool |-> REGISTERED_SECRET_CHAR_POOL], rounds.b + 1)
       IN [rounds EXCEPT !.a = st.a, !.h = st.h, !.b = rounds.b + 1]
  /\ UNCHANGED <<dmVars, urlVars, perf, cipher, obfuscated, extracted, packed, session, redirect,
                 processed>>

\* lines 81-83: after the last iteration of the key schedule b and h are set
\* to 0
ScheduleEnd ==
  /\ rounds.phase = "schedule"
  /\ rounds.b = 255
  /\ rounds' = [rounds EXCEPT !.phase = "keystream", !.b = 0, !.h = 0]
  /\ UNCHANGED <<dmVars, urlVars, perf, cipher, obfuscated, extracted, packed, session, redirect,
                 processed>>

\* lines 85-97: the next iteration of the keystream loop
KeystreamStep ==
  /\ rounds.phase = "keystream"
  /\ rounds.e < Len(rounds.publicCharPool)
  /\ rounds' =
       LET st == KeystreamRound([a |-> rounds.a, b |-> rounds.b, h |-> rounds.h,
                                 urlDecoded |-> rounds.urlDecoded],
                                rounds.publicCharPool, rounds.e)
       IN [rounds EXCEPT !.a = st.a, !.b = st.b, !.h = st.h,
                         !.urlDecoded = st.urlDecoded, !.e = rounds.e + 1]
  /\ UNCHANGED <<dmVars, urlVars, perf, cipher, obfuscated, extracted, packed, session, redirect,
                 processed>>

\* lines 99-104: the loop is over; the call returns or throws
RoundsReturn ==
  /\ rounds.phase = "keystream"
  /\ rounds.e = Len(rounds.publicCharPool)
  /\ rounds' = [rounds EXCEPT !.phase = "returned",
                              !.result = Validated(rounds.urlEncoded, rounds.urlDecoded)]
  /\ UNCHANGED <<dmVars, urlVars, perf, cipher, obfuscated, extracted, packed, session, redirect,
                 processed>>

-----------------------------------------------------------------------------
(* Calls of processPerformanceData *)

\* what the three fields of the JSON can hold
FieldValues == MediaValues \cup {JsNull, JsString(<<>>)}

ProcessInputs ==
  [tag : {"object"}, media_url : FieldValues, video_media_url : FieldValues,
   video_media_mp4_url : FieldValues]

NothingProcessed == [tag |-> "idle", raw |-> JsNull, outcome |-> JsNull]

\* one call
ProcessCall(performanceData) ==
  /\ processed' = [tag |-> "called", raw |-> performanceData,
                   outcome |-> processPerformanceData(performanceData)]
  /\ UNCHANGED <<dmVars, urlVars, perf, cipher, obfuscated, extracted, packed, session,
                 redirect, rounds>>

-----------------------------------------------------------------------------
Init ==
  /\ callPc = [c \in Calls |-> "idle"]
  /\ callId = [c \in Calls |-> NoId]
  /\ callVideo = [c \in Calls |-> FALSE]
  /\ callType = [c \in Calls |-> "none"]
  /\ nextId = 0
  /\ downloadCache = <<>>
  /\ timer = [i \in Ids |-> "none"]
  /\ disk = [i \in Ids |-> "absent"]
  /\ unlinkCount = [i \in Ids |-> 0]
  /\ tcPc = [i \in Ids |-> "idle"]
  /\ tcErr = [i \in Ids |-> FALSE]
  /\ manPc = [m \in Manuals |-> "idle"]
  /\ manId = [m \in Manuals |-> NoId]
  /\ manErr = [m \in Manuals |-> FALSE]
  /\ manRet = [m \in Manuals |-> "none"]
  /\ httpRes = [id |-> NoId, status |-> 0, contentType |-> "none"]
  /\ candidate = JsNull
  /\ decrypted = JsNull
  /\ perf = PerfIdle
  /\ cipher = CipherIdle
  /\ obfuscated = NothingObfuscated
  /\ extracted = NothingExtracted
  /\ packed = NothingDecoded
  /\ session = SessionStart
  /\ redirect = RedirectIdle
  /\ rounds = RoundsIdle
  /\ processed = NothingProcessed

Next ==
  \/ \E c \in Calls, type \in Kinds : DownloadCall(c, type)
  \/ \E c \in Calls : DownloadAllocate(c)
  \/ \E c \in Calls : DownloadResponse(c)
  \/ \E c \in Calls : StreamWrite(c)
  \/ \E c \in Calls : StreamFinish(c)
  \/ \E c \in Calls : DownloadComplete(c)
  \/ \E c \in Calls : DownloadCatch(c)
  \/ \E c \in Calls, ok \in BOOLEAN : DownloadUnlink(c, ok)
  \/ \E c \in Calls : DownloadThrow(c)
  \/ \E id \in Ids : TimerFire(id)
  \/ \E id \in Ids, ok \in BOOLEAN : TimerUnlink(id, ok)
  \/ \E id \in Ids : TimerResume(id)
  \/ \E m \in Manuals, id \in Ids : ManualCleanup(m, id)
  \/ \E m \in Manuals, ok \in BOOLEAN : ManualUnlink(m, ok)
  \/ \E m \in Manuals : ManualResume(m)
  \/ \E id \in Ids : HttpDownload(id)

Spec == Init /\ [][Next]_vars

\* the server with GET /api/stats among its requests
NextStats ==
  \/ Next
  \/ HttpStats

SpecStats == Init /\ [][NextStats]_vars

NextDecrypt == \E mediaUrl \in Candidates : DecryptCandidate(mediaUrl)

SpecDecrypt == Init /\ [][NextDecrypt]_vars

NextPerf ==
  \/ \E smuleUrl \in SmulePaths : PerfCall(smuleUrl)
  \/ \E redirectedUrl \in SmulePaths : PerfRedirected1(redirectedUrl)
  \/ \E rawData \in RawDatas : PerfFetched1(rawData)
  \/ \E message \in FetchErrors : PerfFetchFailed1(message)
  \/ \E html \in Htmls : PerfHtml1(html)
  \/ \E redirectedUrl \in SmulePaths : PerfRedirected2(redirectedUrl)
  \/ \E rawData \in RawDatas : PerfFetched2(rawData)
  \/ \E message \in FetchErrors : PerfFetchFailed2(message)
  \/ \E html \in Htmls : PerfHtml2(html)
  \/ \E html \in Htmls : PerfHtml3(html)
  \/ PerfAgain

SpecPerf == Init /\ [][NextPerf]_vars

NextCipher ==
  \/ \E P \in BytesUpTo(MaxCipherLen) : CipherStart(P)
  \/ CipherApply

SpecCipher == Init /\ [][NextCipher]_vars

NextRoundTrip == \E P \in PlainUrls : RoundTrip(P)

SpecRoundTrip == Init /\ [][NextRoundTrip]_vars

NextExtract ==
  \E shape \in Shapes, key \in PerformanceKeys, scheme \in Schemes, host \in Hosts :
    ExtractCall(shape, key, scheme, host)

SpecExtract == Init /\ [][NextExtract]_vars

NextDecode == \E key \in DecodeInputs : DecodeCall(key)

SpecDecode == Init /\ [][NextDecode]_vars

NextSession == \E urlEncoded \in SessionCandidates : SessionCall(urlEncoded)

SpecSession == Init /\ [][NextSession]_vars

NextRedirect ==
  \/ \E smuleUrl \in RedirectUrls : RedirectCall(smuleUrl)
  \/ \E response \in Responses : RedirectAnswer(response)
  \/ RedirectResume

\* A call that can resume does: the event loop runs the continuation of a
\* settled await.  Whether and when a request is answered is up to the remote
\* host.
SpecRedirect == Init /\ [][NextRedirect]_vars /\ WF_vars(RedirectResume)

NextRounds ==
  \/ \E urlEncoded \in RoundsUrls : RoundsStart(urlEncoded)
  \/ ScheduleStep
  \/ ScheduleEnd
  \/ KeystreamStep
  \/ RoundsReturn

SpecRounds == Init /\ [][NextRounds]_vars

NextProcess == \E performanceData \in ProcessInputs : ProcessCall(performanceData)

SpecProcess == Init /\ [][NextProcess]_vars

\* The timer wheel fires an armed timer, the file system finishes every
\* unlink it was given, and the event loop runs every continuation that is
\* ready.  Nothing obliges a client to call, the network to answer or a
\* download to end.
Fairness ==
  /\ \A id \in Ids : WF_vars(TimerFire(id))
  /\ \A id \in Ids : WF_vars(\E ok \in BOOLEAN : TimerUnlink(id, ok))
  /\ \A id \in Ids : WF_vars(TimerResume(id))
  /\ \A m \in Manuals : WF_vars(\E ok \in BOOLEAN : ManualUnlink(m, ok))
  /\ \A m \in Manuals : WF_vars(ManualResume(m))

FairSpec == Spec /\ Fairness

-----------------------------------------------------------------------------
(* Properties *)

\* the identifiers of the downloadFile calls that have drawn one and have not
\* stored their record: pipeline not finished, or its continuation not yet run,
\* or the call failed
Unfinished == {callId[c] : c \in {b \in Calls : callId[b] # NoId /\ callPc[b] # "done"}}

\* C1: from the moment its identifier is drawn until the continuation of
\* pipeline has run, a download is invisible: getDownloadInfo returns null
\* for it and getStats does not list it
C1_InvisibleUntilWritten ==
  \A id \in Unfinished :
    /\ GetDownloadInfo(id) = Null
    /\ \A d \in GetStats.downloads : d.id # id
    /\ GetStats.activeDownloads = Cardinality(DOMAIN downloadCache \ {id})

\* a lookup of a download in flight answered 404 while the file was partly
\* written and another download was in the cache
C1_Witness ==
  \E c \in Calls :
    /\ callPc[c] = "writing"
    /\ disk[callId[c]] = "partial"
    /\ httpRes.id = callId[c]
    /\ httpRes.status = 404
    /\ DOMAIN downloadCache # {}

FailureStates == {"unlinking", "unlinked", "failed"}

\* C2: when downloadFile fails, no record and no timer exist for its
\* identifier, then or later; the failing steps leave the cache and the timers
\* as they were; and the call throws "Download failed"
C2_FailureLeavesNoRecord ==
  [][\A c \in Calls :
       /\ callPc'[c] \in FailureStates =>
            /\ callId'[c] \notin DOMAIN downloadCache'
            /\ timer'[callId'[c]] = "none"
       /\ (callPc'[c] \in FailureStates /\ callPc'[c] # callPc[c]) =>
            /\ downloadCache' = downloadCache
            /\ timer' = timer
       /\ callPc[c] \in FailureStates => callPc'[c] \in FailureStates
       /\ callPc'[c] = "failed" => CallOutcome(c)' = [tag |-> "throw", message |-> "Download failed"]
    ]_vars

\* a download failed after part of the file was written, while another
\* download was in the cache
C2_Witness ==
  \E c \in Calls :
    /\ callPc[c] = "failed"
    /\ DOMAIN downloadCache # {}
    /\ callId[c] \notin DOMAIN downloadCache

\* the manualCleanup calls made for an identifier
ManualCallsFor(id) == {m \in Manuals : manPc[m] # "idle" /\ manId[m] = id}

\* C3: when the timer of an identifier has fired and manualCleanup has been
\* called for it, the deletion of its file has been attempted at most once
C3_DeletionAttemptedOnce ==
  \A id \in Ids :
    (timer[id] = "fired" /\ ManualCallsFor(id) # {}) => unlinkCount[id] <= 1

\* C4: getDownloadInfo never returns a record whose file has been deleted: a
\* reader sees the record with its file, or neither
C4_ReadyOrEvicted ==
  \A id \in Ids : GetDownloadInfo(id) # Null => disk[id] # "absent"

\* C7: a manualCleanup that finds a record with its timer armed cancels the
\* timer, and a cancelled timer stays cancelled: it never fires and its
\* callback never starts a cleanup
C7_ManualCancelsTimer ==
  [][\A id \in Ids :
       /\ (\E m \in Manuals : manPc[m] = "idle" /\ manPc'[m] # "idle" /\ manId'[m] = id)
            /\ CacheHas(id) /\ timer[id] = "armed"
          => timer'[id] = "cleared"
       /\ timer[id] = "cleared" => (timer'[id] = "cleared" /\ tcPc'[id] = "idle")
    ]_vars

\* a manual cleanup made before the timer fired has returned true
C7_Witness ==
  \E m \in Manuals :
    /\ manRet[m] = "true"
    /\ timer[manId[m]] = "cleared"
    /\ tcPc[manId[m]] = "idle"

\* C8: under FairSpec every record in the cache is eventually removed, after
\* an attempt to delete its file
C8_EventuallyEvicted ==
  \A id \in Ids : CacheHas(id) ~> (~CacheHas(id) /\ unlinkCount[id] >= 1)

\* the timer alone evicted a record, and the deletion of its file failed
C8_Witness ==
  \E id \in Ids :
    /\ tcPc[id] = "done"
    /\ ~CacheHas(id)
    /\ disk[id] = "complete"
    /\ \A m \in Manuals : manPc[m] = "idle"

\* C9: a manualCleanup for an identifier without a record returns false at
\* once and changes neither the cache, nor a timer, nor a file
C9_UnknownIdentifier ==
  [][\A m \in Manuals :
       (manPc[m] = "idle" /\ manPc'[m] # "idle" /\ ~CacheHas(manId'[m])) =>
         /\ manRet'[m] = "false"
         /\ manPc'[m] = "done"
         /\ UNCHANGED <<downloadCache, timer, disk, unlinkCount, tcPc>>
    ]_vars

\* manualCleanup returned false for a download still being written, and for
\* one already evicted
C9_Witness ==
  /\ \E m \in Manuals, c \in Calls :
       manRet[m] = "false" /\ manId[m] = callId[c] /\ callPc[c] = "writing"
  /\ \E m \in Manuals, c \in Calls :
       manRet[m] = "false" /\ manId[m] = callId[c] /\ callPc[c] = "done"

\* C10 as stated: once manualCleanup has returned true, the file is deleted
\* and getDownloadInfo returns null
C10_FileDeleted ==
  \A m \in Manuals :
    manRet[m] = "true" =>
      /\ disk[manId[m]] = "absent"
      /\ GetDownloadInfo(manId[m]) = Null

\* C10 as amended: once manualCleanup has returned true, getDownloadInfo
\* returns null from then on and the deletion of the file has been attempted;
\* the file is gone unless the fs.unlink of that call failed
C10_RecordGone ==
  \A m \in Manuals :
    manRet[m] = "true" =>
      /\ GetDownloadInfo(manId[m]) = Null
      /\ unlinkCount[manId[m]] >= 1
      /\ disk[manId[m]] # "absent" => manErr[m]

\* manualCleanup returned true and the file is deleted
C10_Witness ==
  \E m \in Manuals :
    /\ manRet[m] = "true"
    /\ ~manErr[m]
    /\ disk[manId[m]] = "absent"

\* a string was returned for a candidate that carries the marker
C5_Witness ==
  /\ candidate.tag = "string"
  /\ IsEncoded(candidate.s)
  /\ decrypted.tag = "string"

\* C5 as stated: every value returned by decryptMediaUrl is null or a string
\* that begins with "http"
C5_OnlyHttpReturned ==
  decrypted.tag = "string" => StartsWith(decrypted.s, Http)

\* C5 as amended: a value returned for a candidate that carries the marker
\* "e:" begins with "http"; a non-empty candidate without the marker is
\* returned as it is, whether or not it begins with "http"; null, undefined
\* and "" give null
C5_EncodedOnlyHttp ==
  /\ decrypted.tag \in {"null", "string", "throw"}
  /\ decrypted.tag = "string" =>
       /\ candidate.tag = "string"
       /\ IF IsEncoded(candidate.s)
          THEN StartsWith(decrypted.s, Http)
          ELSE decrypted.s = candidate.s /\ candidate.s # <<>>

\* C6: every media URL of a result returned by getPerformanceFromUrl is null
\* or begins with "http"
C6_MediaUrlsValidated ==
  perf.pc = "returned" =>
    \A url \in {perf.result.mediaUrl, perf.result.videoMediaMp4Url} :
      url.tag = "string" => StartsWith(url.s, Http)

\* C11: the continuation of a cleanup, whatever fs.unlink answered, raises
\* nothing and removes the record; manualCleanup then returns true; the
\* cleanup started by the timer callback ends the same way
C11_EvictionBestEffort ==
  [][/\ \A m \in Manuals :
          (manPc[m] = "resume" /\ manPc'[m] # "resume") =>
            /\ manPc'[m] = "done"
            /\ manRet'[m] = "true"
            /\ manId[m] \notin DOMAIN downloadCache'
     /\ \A id \in Ids :
          (tcPc[id] = "resume" /\ tcPc'[id] # "resume") =>
            /\ tcPc'[id] = "done"
            /\ id \notin DOMAIN downloadCache'
    ]_vars

\* fs.unlink failed in a manual cleanup and in a timer's cleanup, the files
\* are still there, the records are gone and manualCleanup returned true
C11_Witness ==
  /\ \E m \in Manuals :
       /\ manRet[m] = "true"
       /\ manErr[m]
       /\ disk[manId[m]] = "complete"
       /\ ~CacheHas(manId[m])
  /\ \E id \in Ids :
       /\ tcPc[id] = "done"
       /\ tcErr[id]
       /\ disk[id] = "complete"
       /\ ~CacheHas(id)

\* C12: when downloadFile has thrown, no file of its identifier is left in
\* the directory
C12_PartialFileRemoved ==
  \A c \in Calls : callPc[c] = "failed" => disk[callId[c]] = "absent"

\* a cleanup of the identifier has finished
Evicted(id) ==
  \/ tcPc[id] = "done"
  \/ \E m \in Manuals : manId[m] = id /\ manRet[m] = "true"

\* the downloadFile call of the identifier has returned
Completed(id) == \E c \in Calls : callId[c] = id /\ callPc[c] = "done"

\* C13: a record enters the cache only in the step that completes its
\* download, and never after a cleanup of it has finished; once a cleanup has
\* finished the record is absent for good; and a lookup finds a record only
\* between the two
C13_LifecycleOrdered ==
  [][\A id \in Ids :
       /\ (~CacheHas(id) /\ CacheHas(id)') =>
            /\ \E c \in Calls : callId[c] = id /\ callPc[c] = "written" /\ callPc'[c] = "done"
            /\ ~Evicted(id)
       /\ Evicted(id) => (Evicted(id)' /\ ~CacheHas(id)')
       /\ (httpRes' # httpRes /\ httpRes'.id = id /\ httpRes'.status # 404) =>
            (Completed(id) /\ ~Evicted(id))
    ]_vars

\* a download was evicted by its timer, a later manualCleanup of it returned
\* false and a later lookup answered 404
C13_Witness ==
  \E id \in Ids :
    /\ Completed(id)
    /\ tcPc[id] = "done"
    /\ ~CacheHas(id)
    /\ \E m \in Manuals : manId[m] = id /\ manRet[m] = "false"
    /\ httpRes.id = id
    /\ httpRes.status = 404

\* C14: the identifier a call draws differs from the identifier of every
\* other call, whatever became of it, and nothing exists under it yet; the
\* calls write to different paths; and the record of a completing download
\* replaces none
C14_FreshIdentifiers ==
  [][/\ \A c \in Calls :
          (callId[c] = NoId /\ callId'[c] # NoId) =>
            /\ \A b \in Calls \ {c} : callId[b] # callId'[c]
            /\ callId'[c] \notin DOMAIN downloadCache
            /\ disk[callId'[c]] = "absent"
            /\ timer[callId'[c]] = "none"
     /\ \A b, c \in Calls :
          (b # c /\ callId'[b] # NoId /\ callId'[c] # NoId) =>
            FilePath(callId'[b], callVideo'[b]) # FilePath(callId'[c], callVideo'[c])
     /\ \A c \in Calls :
          (callPc[c] = "written" /\ callPc'[c] = "done") => ~CacheHas(callId[c])
    ]_vars

\* two downloads are being written at the same time
C14_Witness ==
  /\ \A c \in Calls : callPc[c] = "writing" /\ disk[callId[c]] = "partial"
  /\ Cardinality({callId[c] : c \in Calls}) = MaxCalls

\* the records of the downloads that have completed and have not been evicted
ReadyRecords == {id \in Ids : Completed(id) /\ ~Evicted(id)}

\* C20: activeDownloads is the number of downloads that have completed and
\* have not been evicted; the step that completes a download adds one, no other
\* step of a download changes it, and the removal of a record subtracts one
C20_ActiveDownloads ==
  [][/\ GetStats'.activeDownloads = Cardinality(ReadyRecords')
     /\ \A c \in Calls :
          callPc'[c] # callPc[c] =>
            GetStats'.activeDownloads =
              GetStats.activeDownloads + (IF callPc'[c] = "done" THEN 1 ELSE 0)
     /\ \A id \in Ids :
          (CacheHas(id) /\ ~CacheHas(id)') =>
            GetStats'.activeDownloads = GetStats.activeDownloads - 1
    ]_vars

\* one download is in the cache, another has been evicted, and the count is
\* back to one
C20_Witness ==
  /\ GetStats.activeDownloads = 1
  /\ \E id \in Ids : Evicted(id) /\ Completed(id)
  /\ \E id \in Ids : CacheHas(id)

\* C15: processRecording returns a string that does not begin with "e:", the
\* empty string and one-character strings among them, as it is; and so does
\* decryptMediaUrl when the string is not empty
C15_PlainReturnedUnchanged ==
  (candidate.tag = "string" /\ ~StartsWith(candidate.s, Marker)) =>
    /\ processRecording(candidate.s) = JsString(candidate.s)
    /\ candidate.s # <<>> => decrypted = JsString(candidate.s)

\* "e", which is shorter than the marker, came back as it was
C15_Witness ==
  /\ candidate = JsString(<<101>>)
  /\ decrypted = JsString(<<101>>)

\* C16: for a candidate that begins with "e:" and whose payload does not
\* decode to a string beginning with "http", the call throws an error that
\* carries the candidate and the decoded string, and returns nothing
C16_ValidationError ==
  (/\ candidate.tag = "string"
   /\ StartsWith(candidate.s, Marker)
   /\ ~StartsWith(DecodePayload(candidate.s), Http)) =>
    decrypted = JsThrow("Failed to decode URL", candidate.s, DecodePayload(candidate.s))

\* the call with the sample of index.js line 297 threw, and the error carries
\* the sample and what it decoded to
C16_Witness ==
  /\ candidate = JsString(testEncryptedUrl)
  /\ decrypted.tag = "throw"
  /\ decrypted.input = testEncryptedUrl
  /\ Len(decrypted.got) > 0

\* C17: decryptMediaUrl returns null for null, undefined and ""
C17_EmptyGivesNull ==
  (candidate.tag \in {"null", "undefined"} \/ candidate = JsString(<<>>)) =>
    decrypted = JsNull

\* the call with "" returned null
C17_Witness ==
  /\ candidate = JsString(<<>>)
  /\ decrypted = JsNull

\* C18: the cipher keeps the length, and applied twice, each time from a
\* fresh permutation, it gives the sequence back
C18_SelfInverse ==
  /\ Len(cipher.text) = Len(cipher.plain)
  /\ cipher.rounds = 2 => cipher.text = cipher.plain

\* a sequence of two bytes or more has been through the cipher twice
C18_Witness ==
  /\ cipher.rounds = 2
  /\ Len(cipher.plain) >= 2
  /\ cipher.text = cipher.plain

\* C19 as stated: decryptMediaUrl maps the obfuscated form of a plaintext URL
\* back to the plaintext
C19_RoundTrip ==
  candidate = JsString(obfuscated.url) => decrypted = JsString(obfuscated.plain)

\* the number of 6-bit symbols that hold n bytes, and the 0-based position of
\* the symbol that completes byte i
SymbolCount(n) == (8 * n + 5) \div 6
CompletedAt(i) == SymbolCount(i) - 1

\* the zero bytes of a ciphertext that one of its last two symbols completes
DroppedBytes(ct) ==
  {i \in 1..Len(ct) : ct[i] = 0 /\ CompletedAt(i) >= SymbolCount(Len(ct)) - 2}

\* C19 as amended: decryptMediaUrl maps the obfuscated form back to the
\* plaintext when no zero byte of the ciphertext is completed by one of the
\* last two symbols; otherwise those bytes are lost and it returns a shorter
\* string
C19_RoundTripUnlessZeroDropped ==
  candidate = JsString(obfuscated.url) =>
    LET P == obfuscated.plain
        dropped == DroppedBytes(Combine(P))
    IN IF dropped = {}
       THEN decrypted = JsString(P)
       ELSE /\ decrypted.tag = "string"
            /\ Len(decrypted.s) = Len(P) - Cardinality(dropped)
            /\ decrypted.s # P

\* "http://" came back from its obfuscated form
C19_Witness ==
  /\ obfuscated.plain = Http \o <<58, 47, 47>>
  /\ candidate = JsString(obfuscated.url)
  /\ decrypted = JsString(obfuscated.plain)

\* C21: a request that only reads (GET /api/download/:id through
\* getDownloadInfo, GET /api/stats through getStats) changes nothing but its
\* own response, and each entry of the getStats snapshot holds an identifier,
\* a file name and the metadata, and nothing else
C21_PureReads ==
  [][httpRes' # httpRes =>
       /\ UNCHANGED <<callPc, callId, callVideo, callType, nextId, downloadCache,
                      timer, disk, unlinkCount, tcPc, tcErr, manPc, manId, manErr,
                      manRet>>
       /\ "body" \in DOMAIN httpRes' =>
            /\ httpRes'.body = GetStats
            /\ \A d \in httpRes'.body.downloads :
                 /\ DOMAIN d = {"id", "fileName", "metadata"}
                 /\ d.fileName = downloadCache[d.id].filePath
                 /\ d.metadata = downloadCache[d.id].metadata
    ]_vars

\* a snapshot that lists a record was sent while the timer of the record was
\* armed and its file was in the directory
C21_Witness ==
  /\ "body" \in DOMAIN httpRes
  /\ \E d \in httpRes.body.downloads :
       /\ timer[d.id] = "armed"
       /\ disk[d.id] = "complete"
       /\ CacheHas(d.id)

\* the extension of a file path
PathExtension(filePath) == filePath[2]

\* C22: a record made for a request of type "video" has the extension .mp4,
\* in its metadata and in its file name, and one made for type "audio" has
\* .m4a; a file is served as video/mp4 for "video" and as audio/mp4 for
\* "audio"
C22_KindFixesExtension ==
  \A c \in Calls :
    LET ext == IF callType[c] = "video" THEN ".mp4" ELSE ".m4a"
        served == IF callType[c] = "video" THEN "video/mp4" ELSE "audio/mp4"
    IN /\ (callPc[c] = "done" /\ CacheHas(callId[c])) =>
            /\ downloadCache[callId[c]].metadata.extension = ext
            /\ PathExtension(downloadCache[callId[c]].filePath) = ext
            /\ CallOutcome(c).fileName = downloadCache[callId[c]].filePath
       /\ (callId[c] # NoId /\ httpRes.id = callId[c] /\ httpRes.status = 200) =>
            httpRes.contentType = served

\* an audio download was served while a video download was in the cache
C22_Witness ==
  \E a, v \in Calls :
    /\ callType[a] = "audio" /\ callType[v] = "video"
    /\ callPc[a] = "done" /\ callPc[v] = "done"
    /\ CacheHas(callId[v])
    /\ httpRes.id = callId[a]
    /\ httpRes.status = 200
    /\ httpRes.contentType = "audio/mp4"

\* C25: no timer exists for an identifier whose download has not completed,
\* whether it is in flight or has failed, and a timer comes into existence in
\* the very step in which the record enters the cache
C25_TimerArmedAtReady ==
  [][/\ \A c \in Calls :
          (callId'[c] # NoId /\ callPc'[c] # "done") => timer'[callId'[c]] = "none"
     /\ \A id \in Ids :
          (timer[id] = "none" /\ timer'[id] # "none") <=> (~CacheHas(id) /\ CacheHas(id)')
     /\ \A id \in Ids :
          (~CacheHas(id) /\ CacheHas(id)') => timer'[id] = "armed"
    ]_vars

\* a download is being written without a timer while the timer of a
\* completed one is armed
C25_Witness ==
  \E p, r \in Calls :
    /\ callPc[p] = "writing"
    /\ disk[callId[p]] = "partial"
    /\ timer[callId[p]] = "none"
    /\ callPc[r] = "done"
    /\ timer[callId[r]] = "armed"

\* C23: the sample of index.js line 297 decodes to a string that begins with
\* "http"
C23_SampleDecodes ==
  candidate = JsString(testEncryptedUrl) =>
    (decrypted.tag = "string" /\ StartsWith(decrypted.s, Http))

\* C24: a URL of any of the six documented shapes, written with http://, with
\* https:// or with no scheme, on smule.com or on www.smule.com, gives exactly
\* the key it was built from.
C24_KeyOfDocumentedShapes ==
  extracted.shape \in Shapes => extracted.result = extracted.key

C24_Witness ==
  /\ extracted.shape = "recording/p"
  /\ extracted.url.scheme = "http://"
  /\ extracted.url.host = "smule.com"
  /\ extracted.result = "1234567890_1234567890"

\* the reference packing: bit k (from 0) of the concatenation of the 6-bit
\* values, most significant bit first; byte j (from 1) of that concatenation;
\* and the bytes that remain when a zero byte completed by one of the last
\* two symbols is left out
BitAt(key, k) == (AlphabetValue(key[(k \div 6) + 1]) \div Pow2(5 - (k % 6))) % 2

ByteAt(key, j) ==
  LET bit(i) == BitAt(key, 8 * (j - 1) + i)
  IN 128 * bit(0) + 64 * bit(1) + 32 * bit(2) + 16 * bit(3)
       + 8 * bit(4) + 4 * bit(5) + 2 * bit(6) + bit(7)

ReferencePacking(key) ==
  LET all == [j \in 1..((6 * Len(key)) \div 8) |->
                [byte |-> ByteAt(key, j), at |-> CompletedAt(j)]]
      kept == SelectSeq(all, LAMBDA e : e.byte # 0 \/ e.at < Len(key) - 2)
  IN [i \in 1..Len(kept) |-> kept[i].byte]

\* C26: registerCharPool returns the reference packing of its input: the 6-bit
\* values concatenated most significant bit first and cut into bytes, without
\* the zero bytes that one of the last two symbols completes and with every
\* earlier zero byte.
C26_ReferencePacking ==
  packed.tag = "decoded" => packed.charPool = ReferencePacking(packed.key)

\* "AAAAAAAA" packs to six zero bytes; the symbols at positions 6 and 7
\* complete the last two
C26_Witness ==
  /\ packed.tag = "decoded"
  /\ packed.key = [i \in 1..8 |-> 65]
  /\ packed.charPool = <<0, 0, 0, 0>>

\* C27 as stated: the decoded bytes are always fewer than the input symbols.
C27_StrictlyShorter ==
  packed.tag = "decoded" => Len(packed.charPool) < Len(packed.key)

\* C27 as amended: the decoded bytes are at most three for every four input
\* symbols, so they are fewer than the symbols of a non-empty input; the empty
\* input decodes to the empty string, of the same length.
C27_ShorterUnlessEmpty ==
  packed.tag = "decoded" =>
    /\ 4 * Len(packed.charPool) <= 3 * Len(packed.key)
    /\ packed.key # <<>> => Len(packed.charPool) < Len(packed.key)
    /\ packed.key = <<>> => packed.charPool = <<>>

C27_Witness ==
  /\ packed.tag = "decoded"
  /\ packed.key = [i \in 1..8 |-> 47]
  /\ Len(packed.charPool) = 6

\* the input with "A", of value 0, in the place of every character that is
\* not in the alphabet
Lenient(key) ==
  [i \in 1..Len(key) |->
     IF \E n \in 1..64 : alphabet[n] = key[i] THEN key[i] ELSE 65]

\* C28: registerCharPool returns for every input, a string of bytes, and the
\* characters outside the alphabet ("=" and the non-ASCII ones among them)
\* count as the value 0: the result is that of the input with "A" in their
\* place.
C28_TotalAndLenient ==
  packed.tag = "decoded" =>
    /\ packed.charPool = registerCharPool(Lenient(packed.key))
    /\ \A i \in 1..Len(packed.charPool) : packed.charPool[i] \in 0..255

\* "/=" and the euro sign decode as "/AA" does
C28_Witness ==
  /\ packed.tag = "decoded"
  /\ packed.key = <<47, 61, 8364>>
  /\ packed.charPool = <<252>>

\* C29: whatever calls of processRecording came before, a call returns what
\* the same call returns in a process that made no other call, which is also
\* what the first call of this process returned if it had the same argument;
\* and the pool is the one computed when the module was loaded.
C29_FunctionOfInput ==
  session.calls # "none" =>
    /\ session.latest.result = processRecording(session.latest.urlEncoded)
    /\ session.latest.urlEncoded = session.first.urlEncoded =>
         session.latest.result = session.first.result
    /\ session.secretPool = REGISTERED_SECRET_CHAR_POOL

\* "e:p4MNZY0b", the argument of the first call, decrypted again by a later
\* call, to "https:" both times
C29_Witness ==
  /\ session.calls = "many"
  /\ session.first.urlEncoded = <<101, 58, 112, 52, 77, 78, 90, 89, 48, 98>>
  /\ session.latest = session.first
  /\ session.latest.result = JsString(<<104, 116, 116, 112, 115, 58>>)
  /\ session.left # Scheduled(<<>>, REGISTERED_SECRET_CHAR_POOL).a

\* a call follows at most maxRedirects redirects, and what it returns is the
\* URL it reached last
RedirectHopsBounded ==
  /\ redirect.redirectCount <= maxRedirects
  /\ redirect.pc = "returned" => redirect.returned = redirect.currentUrl

\* C30: followRedirects always terminates: a call that awaits the answer to a
\* request returns, after at most 5 redirects.
C30_AlwaysReturns ==
  (redirect.pc = "waiting") ~> (redirect.pc = "returned" /\ redirect.redirectCount <= maxRedirects)

\* C31: of the manualCleanup calls for one identifier, at most one returns
\* true.
C31_AtMostOneTrue ==
  \A id \in Ids :
    Cardinality({m \in Manuals : manId[m] = id /\ manRet[m] = "true"}) <= 1

\* a cleanupDownload of the identifier is between its first line and its last
CleanupInProgress(id) ==
  \/ tcPc[id] \in {"unlink", "resume"}
  \/ \E m \in Manuals : manId[m] = id /\ manPc[m] \in {"unlink", "resume"}

\* C32: every record in the cache has a timer that is armed, not fired and
\* not cancelled, or a cleanup of its identifier in progress; and an
\* identifier without a record has no such timer.
C32_NoStrandedRecord ==
  \A id \in Ids :
    /\ CacheHas(id) => timer[id] = "armed" \/ CleanupInProgress(id)
    /\ timer[id] = "armed" => CacheHas(id)

\* a record whose timer was cancelled by the manual cleanup that is removing it
C32_Witness ==
  \E id \in Ids : CacheHas(id) /\ timer[id] = "cleared" /\ CleanupInProgress(id)

\* downloadFile for the identifier has not returned or thrown yet
InFlight(id) ==
  \E c \in Calls :
    /\ callId[c] = id
    /\ callPc[c] \in {"fetching", "writing", "written", "unlinking", "unlinked"}

\* C33: every file in the storage directory belongs to a download in flight
\* or to a record in the cache.
C33_NoOrphanFiles ==
  \A id \in Ids : disk[id] # "absent" => InFlight(id) \/ CacheHas(id)

\* a step of downloadFile for the identifier, or of an eviction of it
ActsOn(id) ==
  \/ \E c \in Calls :
       /\ callId'[c] = id
       /\ \/ DownloadAllocate(c) \/ DownloadResponse(c) \/ StreamWrite(c)
          \/ StreamFinish(c) \/ DownloadComplete(c) \/ DownloadCatch(c)
          \/ DownloadThrow(c) \/ \E ok \in BOOLEAN : DownloadUnlink(c, ok)
  \/ TimerFire(id) \/ TimerResume(id) \/ \E ok \in BOOLEAN : TimerUnlink(id, ok)
  \/ \E m \in Manuals :
       \/ ManualCleanup(m, id)
       \/ manId[m] = id /\ (ManualResume(m) \/ \E ok \in BOOLEAN : ManualUnlink(m, ok))

\* the step leaves the record, the timer and the file of the identifier as
\* they were
Untouched(id) ==
  /\ GetDownloadInfo(id)' = GetDownloadInfo(id)
  /\ timer'[id] = timer[id]
  /\ disk'[id] = disk[id]

\* C34: a step of downloadFile for one identifier, or of a manual or
\* timer-triggered eviction of it, leaves the record, the timer and the file
\* of every other identifier unchanged.
C34_OthersUntouched ==
  [][\A A \in Ids : ActsOn(A) => \A B \in Ids \ {A} : Untouched(B)]_vars

\* the first download was evicted by its timer and the second is still there,
\* with its file and its armed timer
C34_Witness ==
  /\ ~CacheHas(1) /\ tcPc[1] = "done" /\ disk[1] = "absent"
  /\ CacheHas(2) /\ timer[2] = "armed" /\ disk[2] = "complete"

\* each of 0..255 is the value of exactly one of the 256 slots
IsPermutation(a) ==
  /\ DOMAIN a = 0..255
  /\ \A v \in 0..255 : Cardinality({i \in 0..255 : a[i] = v}) = 1

\* C35: after every iteration of the key schedule and of the keystream loop
\* of processRecording, the array is a permutation of 0..255 and b and h are
\* within 0..255.
C35_PermutationKept ==
  rounds.phase # "idle" =>
    /\ IsPermutation(rounds.a)
    /\ rounds.b \in 0..255
    /\ rounds.h \in 0..255

\* the eighth keystream iteration of "e:p4MNZcQOvSA", which decrypts to
\* "http://a"
C35_Witness ==
  /\ rounds.phase = "keystream"
  /\ rounds.e = 8
  /\ rounds.urlDecoded = <<104, 116, 116, 112, 58, 47, 47, 97>>
  /\ rounds.a # [i \in 0..255 |-> i]

\* the accumulator without a width: after the symbol at position d it is the
\* number whose digits in base 64 are the values of the symbols 0..d, so its
\* bit p (from the least significant) is a bit of the symbol p \div 6 places
\* before d; WideByte is (l >> c) & 255 on that number
WideBit(key, d, p) ==
  LET i == d - (p \div 6)
  IN IF i < 0 THEN 0 ELSE (AlphabetValue(key[i + 1]) \div Pow2(p % 6)) % 2

WideByte(key, d, c) ==
  LET bit(k) == WideBit(key, d, c + k)
  IN bit(0) + 2 * bit(1) + 4 * bit(2) + 8 * bit(3)
       + 16 * bit(4) + 32 * bit(5) + 64 * bit(6) + 128 * bit(7)

\* the bytes of the loop of lines 27-42 run on that accumulator: before the
\* symbol at position d the count c is (6 * d) % 8, and a byte is taken when
\* c + 6 reaches 8
UnboundedDecode(key) ==
  LET h == Len(key)
      taken == SelectSeq([n \in 1..h |-> n - 1], LAMBDA d : ((6 * d) % 8) + 6 >= 8)
      bytes == [n \in 1..Len(taken) |->
                  [b |-> WideByte(key, taken[n], ((6 * taken[n]) % 8) - 2), d |-> taken[n]]]
      kept == SelectSeq(bytes, LAMBDA x : x.b # 0 \/ x.d < h - 2)
  IN [n \in 1..Len(kept) |-> kept[n].b]

\* C36: registerCharPool, whose accumulator wraps at 32 bits, returns the
\* bytes that the same loop returns with an accumulator that never wraps.
C36_WrapChangesNoByte ==
  packed.tag = "decoded" => packed.charPool = UnboundedDecode(packed.key)

\* "////////" holds 48 one bits: the accumulator has wrapped to -1 and the six
\* bytes are 255
C36_Witness ==
  /\ packed.tag = "decoded"
  /\ packed.key = [i \in 1..8 |-> 47]
  /\ packed.l = -1
  /\ packed.charPool = [i \in 1..6 |-> 255]

\* the field holds a string whose decryption fails validation
FailsToDecrypt(v) == Truthy(v) /\ processRecording(v.s).tag = "throw"

\* C37: when the decryption of media_url, of video_media_url or of
\* video_media_mp4_url fails, processPerformanceData throws "Failed to decrypt
\* media URLs" and returns nothing, whatever the other fields hold; otherwise
\* it returns an object.
C37_AllOrNothing ==
  processed.tag = "called" =>
    LET raw == processed.raw
        failed == \/ FailsToDecrypt(raw.media_url)
                  \/ FailsToDecrypt(raw.video_media_url)
                  \/ FailsToDecrypt(raw.video_media_mp4_url)
    IN IF failed
       THEN processed.outcome = [tag |-> "throw", message |-> "Failed to decrypt media URLs"]
       ELSE processed.outcome.tag = "object"

\* media_url and video_media_url decrypt to "http://a" and video_media_mp4_url
\* does not decrypt
C37_Witness ==
  /\ processed.tag = "called"
  /\ processed.raw.media_url = EncodedUrl
  /\ processed.raw.video_media_url = EncodedUrl
  /\ processed.raw.video_media_mp4_url = BrokenUrl
  /\ processed.outcome.tag = "throw"

=============================================================================
